---- MODULE Spec2Model ----
(***************************************************************************)
(* A model of the class resolution engine (vm/class_loader.rs) and of the  *)
(* constant pool phase of the class file parser (parser/class_file.rs).    *)
(*                                                                         *)
(* The loader is modelled as a call stack of load_class_impl activations;  *)
(* every action is one straight-line piece of that function between two    *)
(* recursive calls.                                                        *)
(***************************************************************************)
EXTENDS Integers, Sequences, FiniteSets, TLC

(***************************************************************************)
(* Bounds                                                                  *)
(***************************************************************************)
\* nesting depth of array handles that are enumerated as inputs
MaxArrayDepth == 1

(***************************************************************************)
(* Handles (vm::handle::Class, vm::handle::Type)                           *)
(***************************************************************************)
ObjectName == "java/lang/Object"

ScalarNames == {ObjectName, "A", "B"}

Scalar(n) == [kind |-> "Scalar", name |-> n, component_type |-> <<>>]

Array(t) == [kind |-> "Array", name |-> "", component_type |-> <<t>>]

Primitive(p) == [ty |-> p, handle |-> <<>>]

Reference(h) == [ty |-> "Reference", handle |-> <<h>>]

PrimitiveTypes == {"Byte", "Char", "Double", "Float", "Int", "Long", "Short", "Boolean"}

\* the primitive element types that are enumerated as inputs
InputPrimitives == {"Int"}

ScalarHandles == {Scalar(n) : n \in ScalarNames}

RECURSIVE ArrayHandles(_)
ArrayHandles(d) ==
    IF d = 0 THEN {}
    ELSE LET inner == ArrayHandles(d - 1)
         IN  {Array(Primitive(p)) : p \in InputPrimitives}
               \cup {Array(Reference(h)) : h \in ScalarHandles \cup inner}

Handles == ScalarHandles \cup ArrayHandles(MaxArrayDepth)

object_handle == Scalar(ObjectName)

IsArray(h) == h.kind = "Array"

ComponentType(h) == h.component_type[1]

IsReferenceType(t) == t.ty = "Reference"

(***************************************************************************)
(* Results: Result<Rc<vm::Class>, Error>                                   *)
(***************************************************************************)
Ok(c) == [ok |-> TRUE, class |-> <<c>>, err |-> ""]

Err(e) == [ok |-> FALSE, class |-> <<>>, err |-> e]

(***************************************************************************)
(* The byte source collaborator: for every scalar name either nothing, or  *)
(* a class file, of which the loader uses the parse outcome, the declared  *)
(* name, the superclass and the superinterfaces.                           *)
(***************************************************************************)
NotFound == [found |-> FALSE, wellformed |-> FALSE, this_class |-> "",
             super_class |-> <<>>, interfaces |-> <<>>]

Malformed == [found |-> TRUE, wellformed |-> FALSE, this_class |-> "",
              super_class |-> <<>>, interfaces |-> <<>>]

File(n, s, is) == [found |-> TRUE, wellformed |-> TRUE, this_class |-> n,
                   super_class |-> s, interfaces |-> is]

\* java/lang/Object is absent or the root class; A is absent, malformed, a file
\* declaring another name, or a class with one of several superclasses (itself,
\* B, an array of A) or a superinterface B; B extends Object or A.
FilesFor(n) ==
    IF n = ObjectName THEN {NotFound, File(n, <<>>, <<>>)}
    ELSE IF n = "A"
    THEN {NotFound, Malformed, File("Other", <<Scalar(ObjectName)>>, <<>>),
          File(n, <<Scalar(ObjectName)>>, <<>>),
          File(n, <<Scalar(ObjectName)>>, <<Scalar("B")>>),
          File(n, <<Scalar("A")>>, <<>>),
          File(n, <<Scalar("B")>>, <<>>),
          File(n, <<Array(Reference(Scalar("A")))>>, <<>>)}
    ELSE {File(n, <<Scalar(ObjectName)>>, <<>>), File(n, <<Scalar("A")>>, <<>>)}

Sources == {src \in [ScalarNames -> UNION {FilesFor(n) : n \in ScalarNames}] :
               \A n \in ScalarNames : src[n] \in FilesFor(n)}

(***************************************************************************)
(* State                                                                   *)
(***************************************************************************)
VARIABLES
    classes,     \* ClassLoader.classes: handle -> class instance
    pending,     \* the pending set of the current load_class call
    stack,       \* activations of load_class_impl, innermost last
    ret,         \* <<>> or <<r>>: the value the last finished activation returned
    created,     \* handle -> number of vm::Class values constructed for it
    source,      \* the byte source
    consulted,   \* names looked up in the byte source during the current load_class
    request      \* <<>> or <<h>>: handle of the current / last load_class call

\* the class file parser (parser/class_file.rs, class_file_parser)
VARIABLES
    phase,               \* the field of the chain! that is read next
    constant_pool_count, \* the header's u2
    i,                   \* constant_pool_special_count: pool index of the next entry
    entries,             \* constant_pool_special_count: the Vec built so far
    class_file,          \* the fields of ClassFile parsed so far
    todo,                \* count!: items of the current list still to be read
    budget,              \* list items the input may still hold
    result               \* <<>> while parsing, then <<r>>

\* the byte-level parsers and decoders: one call of one function on one input
VARIABLES
    data,                \* the bytes handed to the function
    output               \* <<>> before the call, then <<r>>: what it returned

loader == <<classes, pending, stack, ret, created, source, consulted, request>>

parser == <<phase, constant_pool_count, i, entries, class_file, todo, budget, result>>

decoder == <<data, output>>

vars == <<loader, parser, decoder>>

Frame(h) == [handle |-> h, pc |-> "entry", res |-> <<>>, file |-> <<>>,
             superclass |-> <<>>, k |-> 1]

Top == stack[Len(stack)]

Pop == SubSeq(stack, 1, Len(stack) - 1)

SetTop(f) == [stack EXCEPT ![Len(stack)] = f]

Call(f, h) == Append(SetTop(f), Frame(h))

Running == stack # <<>>

At(p) == Running /\ Top.pc = p

HistoryUnchanged == UNCHANGED request


(***************************************************************************)
(* Initial state: a fresh ClassLoader, no call in progress, nothing parsed.*)
(***************************************************************************)
EmptyClassFile ==
    [constant_pool |-> <<>>, this_class |-> 0, super_class |-> 0, interfaces |-> <<>>,
     fields |-> <<>>, methods |-> <<>>, attributes |-> <<>>]

ParserAtStart ==
    /\ phase = "start"
    /\ constant_pool_count = 0
    /\ i = 0
    /\ entries = <<>>
    /\ class_file = EmptyClassFile
    /\ todo = 0
    /\ budget = 0
    /\ result = <<>>

Init ==
    /\ classes = <<>>
    /\ pending = {}
    /\ stack = <<>>
    /\ ret = <<>>
    /\ created = [h \in Handles |-> 0]
    /\ source \in Sources
    /\ consulted = {}
    /\ request = <<>>
    /\ ParserAtStart
    /\ data = <<>>
    /\ output = <<>>

\* mutation: the cache lookup never hits
CachedNever(h) == FALSE

Cached(h) == h \in DOMAIN classes

Insert(h, class) == [x \in (DOMAIN classes) \cup {h} |-> IF x = h THEN class ELSE classes[x]]

\* `return r` from the innermost activation
Return(r) ==
    /\ stack' = Pop
    /\ ret' = <<r>>
    /\ UNCHANGED request

(***************************************************************************)
(* load_class: a new, empty pending set and the outermost activation.      *)
(***************************************************************************)
load_class(h) ==
    /\ ~Running
    /\ stack' = <<Frame(h)>>
    /\ pending' = {}
    /\ ret' = <<>>
    /\ consulted' = {}
    /\ request' = <<h>>
    /\ UNCHANGED <<classes, created, source>>
    /\ UNCHANGED <<parser, decoder>>

(***************************************************************************)
(* load_class_impl, entry: the three-way branch on pending and classes.    *)
(***************************************************************************)
\* mutation: the pending set is never consulted
IsPendingNever(h) == FALSE

IsPending(h) == h \in pending

AlreadyPending ==
    /\ At("entry")
    /\ IsPending(Top.handle)
    /\ Return(Err("ClassCircularity"))
    /\ UNCHANGED <<classes, pending, created, source, consulted>>
    /\ UNCHANGED <<parser, decoder>>

\* mutation: the cached class value is copied instead of the Rc being cloned
AlreadyResolvedCopy ==
    /\ At("entry")
    /\ ~IsPending(Top.handle)
    /\ Top.handle \in DOMAIN classes
    /\ Return(Ok([classes[Top.handle] EXCEPT !.id.serial = @ + 1]))
    /\ UNCHANGED <<classes, pending, created, source, consulted>>
    /\ UNCHANGED <<parser, decoder>>

AlreadyResolved ==
    /\ At("entry")
    /\ ~IsPending(Top.handle)
    /\ Cached(Top.handle)
    /\ Return(Ok(classes[Top.handle]))
    /\ UNCHANGED <<classes, pending, created, source, consulted>>
    /\ UNCHANGED <<parser, decoder>>

\* mutation: the class is registered in the cache when it is marked pending
MarkPendingRegisters ==
    /\ At("entry")
    /\ ~IsPending(Top.handle)
    /\ Top.handle \notin DOMAIN classes
    /\ pending' = pending \cup {Top.handle}
    /\ classes' = [x \in (DOMAIN classes) \cup {Top.handle} |->
                      IF x = Top.handle
                      THEN [id |-> [handle |-> x, serial |-> 1], superclass |-> <<>>]
                      ELSE classes[x]]
    /\ stack' = SetTop([Top EXCEPT !.pc = "dispatch"])
    /\ UNCHANGED <<ret, created, source, consulted>>
    /\ HistoryUnchanged
    /\ UNCHANGED <<parser, decoder>>

MarkPending ==
    /\ At("entry")
    /\ ~IsPending(Top.handle)
    /\ ~Cached(Top.handle)
    /\ pending' = pending \cup {Top.handle}
    /\ stack' = SetTop([Top EXCEPT !.pc = "dispatch"])
    /\ UNCHANGED <<classes, ret, created, source, consulted>>
    /\ HistoryUnchanged
    /\ UNCHANGED <<parser, decoder>>

(***************************************************************************)
(* load_class_impl, array arm.                                             *)
(***************************************************************************)
\* component type is primitive: Ok(None), then java/lang/Object is requested
ArrayPrimitive ==
    /\ At("dispatch")
    /\ IsArray(Top.handle)
    /\ ComponentType(Top.handle).ty \in PrimitiveTypes
    /\ stack' = Call([Top EXCEPT !.pc = "object"], object_handle)
    /\ ret' = <<>>
    /\ UNCHANGED <<classes, pending, created, source, consulted>>
    /\ HistoryUnchanged
    /\ UNCHANGED <<parser, decoder>>

\* mutation: the element class of a reference array is not resolved
ArrayReferenceSkipsComponent ==
    /\ At("dispatch")
    /\ IsArray(Top.handle)
    /\ IsReferenceType(ComponentType(Top.handle))
    /\ stack' = Call([Top EXCEPT !.pc = "object"], object_handle)
    /\ ret' = <<>>
    /\ UNCHANGED <<classes, pending, created, source, consulted>>
    /\ HistoryUnchanged
    /\ UNCHANGED <<parser, decoder>>

\* component type is a reference: the component class is requested
ArrayReference ==
    /\ At("dispatch")
    /\ IsArray(Top.handle)
    /\ IsReferenceType(ComponentType(Top.handle))
    /\ stack' = Call([Top EXCEPT !.pc = "component"], ComponentType(Top.handle).handle[1])
    /\ ret' = <<>>
    /\ UNCHANGED <<classes, pending, created, source, consulted>>
    /\ HistoryUnchanged
    /\ UNCHANGED <<parser, decoder>>

\* and_then: an Err of the component skips the closure, an Ok requests Object
ComponentLoaded ==
    /\ At("component")
    /\ IF ret[1].ok
       THEN /\ stack' = Call([Top EXCEPT !.pc = "object"], object_handle)
            /\ ret' = <<>>
       ELSE /\ stack' = SetTop([Top EXCEPT !.pc = "unmark", !.res = ret])
            /\ ret' = <<>>
    /\ UNCHANGED <<classes, pending, created, source, consulted>>
    /\ HistoryUnchanged
    /\ UNCHANGED <<parser, decoder>>

\* Rc::new: the identity of a newly allocated class value
NewRc(h) == [handle |-> h, serial |-> created[h] + 1]

\* mutation: the array class gets no superclass
NewArrayClassRootless(h, object_class) ==
    [id |-> NewRc(h), superclass |-> <<>>]

NewArrayClass(h, object_class) ==
    [id |-> NewRc(h), superclass |-> <<object_class.id>>]

\* map: an Err of Object is passed on, an Ok builds and caches the array class
ObjectLoaded ==
    /\ At("object")
    /\ IF ret[1].ok
       THEN LET class == NewArrayClass(Top.handle, ret[1].class[1])
            IN  /\ classes' = Insert(Top.handle, class)
                /\ created' = [created EXCEPT ![Top.handle] = @ + 1]
                /\ stack' = SetTop([Top EXCEPT !.pc = "unmark", !.res = <<Ok(class)>>])
       ELSE /\ stack' = SetTop([Top EXCEPT !.pc = "unmark", !.res = ret])
            /\ UNCHANGED <<classes, created>>
    /\ ret' = <<>>
    /\ UNCHANGED <<pending, source, consulted>>
    /\ HistoryUnchanged
    /\ UNCHANGED <<parser, decoder>>

(***************************************************************************)
(* load_class_impl, exit: pending.remove(&handle); res                     *)
(***************************************************************************)
\* mutation: the handle is left in the pending set
UnmarkedForgotten(h) == pending

Unmarked(h) == pending \ {h}

UnmarkPending ==
    /\ At("unmark")
    /\ pending' = Unmarked(Top.handle)
    /\ Return(Top.res[1])
    /\ UNCHANGED <<classes, created, source, consulted>>
    /\ UNCHANGED <<parser, decoder>>


(***************************************************************************)
(* load_class_impl, scalar arm, after 4.4 of the design: locate the class  *)
(* file, parse it, compare the declared name, resolve the superclass and   *)
(* then the superinterfaces, construct the class and cache it.             *)
(***************************************************************************)
Fail(e) == SetTop([Top EXCEPT !.pc = "unmark", !.res = <<Err(e)>>])

\* mutation: the declared name is not compared with the requested one
ScalarLocateAnyName ==
    /\ At("dispatch")
    /\ ~IsArray(Top.handle)
    /\ consulted' = consulted \cup {Top.handle.name}
    /\ LET file == source[Top.handle.name]
       IN  IF ~file.found THEN stack' = Fail("ClassNotFound")
           ELSE IF ~file.wellformed THEN stack' = Fail("ClassFormat")
           ELSE IF file.super_class # <<>>
                THEN stack' = Call([Top EXCEPT !.pc = "super", !.file = <<file>>],
                                   file.super_class[1])
                ELSE stack' = SetTop([Top EXCEPT !.pc = "interfaces", !.file = <<file>>])
    /\ ret' = <<>>
    /\ UNCHANGED <<classes, pending, created, source>>
    /\ HistoryUnchanged
    /\ UNCHANGED <<parser, decoder>>

ScalarLocate ==
    /\ At("dispatch")
    /\ ~IsArray(Top.handle)
    /\ consulted' = consulted \cup {Top.handle.name}
    /\ LET file == source[Top.handle.name]
       IN  IF ~file.found THEN stack' = Fail("ClassNotFound")
           ELSE IF ~file.wellformed THEN stack' = Fail("ClassFormat")
           ELSE IF file.this_class # Top.handle.name THEN stack' = Fail("NoClassDefFound")
           ELSE IF file.super_class # <<>>
                THEN stack' = Call([Top EXCEPT !.pc = "super", !.file = <<file>>],
                                   file.super_class[1])
                ELSE stack' = SetTop([Top EXCEPT !.pc = "interfaces", !.file = <<file>>])
    /\ ret' = <<>>
    /\ UNCHANGED <<classes, pending, created, source>>
    /\ HistoryUnchanged
    /\ UNCHANGED <<parser, decoder>>

\* mutation: the class is cached once its superclass is there, before the
\* superinterfaces are resolved
SuperLoadedRegisters ==
    /\ At("super")
    /\ IF ret[1].ok
       THEN /\ stack' = SetTop([Top EXCEPT !.pc = "interfaces",
                                           !.superclass = <<ret[1].class[1].id>>])
            /\ classes' = Insert(Top.handle,
                                 [id |-> [handle |-> Top.handle, serial |-> 1],
                                  superclass |-> <<ret[1].class[1].id>>])
       ELSE /\ stack' = SetTop([Top EXCEPT !.pc = "unmark", !.res = ret])
            /\ UNCHANGED classes
    /\ ret' = <<>>
    /\ UNCHANGED <<pending, created, source, consulted>>
    /\ HistoryUnchanged
    /\ UNCHANGED <<parser, decoder>>

SuperLoaded ==
    /\ At("super")
    /\ IF ret[1].ok
       THEN stack' = SetTop([Top EXCEPT !.pc = "interfaces",
                                        !.superclass = <<ret[1].class[1].id>>])
       ELSE stack' = SetTop([Top EXCEPT !.pc = "unmark", !.res = ret])
    /\ ret' = <<>>
    /\ UNCHANGED <<classes, pending, created, source, consulted>>
    /\ HistoryUnchanged
    /\ UNCHANGED <<parser, decoder>>

NextInterface ==
    /\ At("interfaces")
    /\ Top.k <= Len(Top.file[1].interfaces)
    /\ stack' = Call([Top EXCEPT !.pc = "interface"], Top.file[1].interfaces[Top.k])
    /\ ret' = <<>>
    /\ UNCHANGED <<classes, pending, created, source, consulted>>
    /\ HistoryUnchanged
    /\ UNCHANGED <<parser, decoder>>

InterfaceLoaded ==
    /\ At("interface")
    /\ IF ret[1].ok
       THEN stack' = SetTop([Top EXCEPT !.pc = "interfaces", !.k = Top.k + 1])
       ELSE stack' = SetTop([Top EXCEPT !.pc = "unmark", !.res = ret])
    /\ ret' = <<>>
    /\ UNCHANGED <<classes, pending, created, source, consulted>>
    /\ HistoryUnchanged
    /\ UNCHANGED <<parser, decoder>>

NewScalarClass(h, superclass) ==
    [id |-> NewRc(h), superclass |-> superclass]

ScalarConstruct ==
    /\ At("interfaces")
    /\ Top.k > Len(Top.file[1].interfaces)
    /\ LET class == NewScalarClass(Top.handle, Top.superclass)
       IN  /\ classes' = Insert(Top.handle, class)
           /\ created' = [created EXCEPT ![Top.handle] = @ + 1]
           /\ stack' = SetTop([Top EXCEPT !.pc = "unmark", !.res = <<Ok(class)>>])
    /\ ret' = <<>>
    /\ UNCHANGED <<pending, source, consulted>>
    /\ HistoryUnchanged
    /\ UNCHANGED <<parser, decoder>>

(***************************************************************************)
(* The environment replaces the class file behind one name while no        *)
(* resolution is in progress; the result of the last call is gone by then. *)
(***************************************************************************)
ReplaceSource ==
    /\ ~Running
    /\ \E n \in ScalarNames : \E f \in FilesFor(n) :
          /\ f # source[n]
          /\ source' = [source EXCEPT ![n] = f]
    /\ ret' = <<>>
    /\ request' = <<>>
    /\ consulted' = {}
    /\ UNCHANGED <<classes, pending, stack, created>>
    /\ UNCHANGED <<parser, decoder>>

Next ==
    \/ \E h \in Handles : load_class(h)
    \/ AlreadyPending
    \/ AlreadyResolved
    \/ MarkPending
    \/ ArrayPrimitive
    \/ ArrayReference
    \/ ComponentLoaded
    \/ ObjectLoaded
    \/ UnmarkPending
    \/ ScalarLocate
    \/ SuperLoaded
    \/ NextInterface
    \/ InterfaceLoaded
    \/ ScalarConstruct
    \/ ReplaceSource

Spec == Init /\ [][Next]_vars

TypeOK ==
    /\ DOMAIN classes \subseteq Handles
    /\ pending \subseteq Handles
    /\ \A h \in Handles : created[h] \in 0..1


(***************************************************************************)
(* Vocabulary of the loader claims                                         *)
(***************************************************************************)
\* load_class has returned: no activation is left and a result is there
Returned == ~Running /\ ret # <<>> /\ request # <<>>

\* the outermost activation is about to take the three-way branch
OutermostEntry == Len(stack) = 1 /\ stack[1].pc = "entry"

InnermostHandle == stack[Len(stack)].handle

\* the activations that have marked their handle pending and not yet returned
MarkedHandles == {stack[n].handle : n \in {m \in 1..Len(stack) : stack[m].pc # "entry"}}

(***************************************************************************)
(* C1  Idempotent resolution.  Whenever load_class(h) returns Ok(c), c is  *)
(* the instance cached under h and the only instance ever constructed for  *)
(* h, so every Ok result for h is the same Rc; and a load_class call on a  *)
(* cached handle returns that instance in its first step, constructing     *)
(* nothing, consulting no byte source and leaving the cache unchanged.     *)
(***************************************************************************)
C1_SameInstance ==
    (Returned /\ ret[1].ok) =>
        /\ request[1] \in DOMAIN classes
        /\ classes[request[1]] = ret[1].class[1]
        /\ ret[1].class[1].id = [handle |-> request[1], serial |-> 1]
        /\ created[request[1]] = 1

C1_CacheHit ==
    (OutermostEntry /\ stack[1].handle \in DOMAIN classes) =>
        /\ stack' = <<>>
        /\ ret' = <<Ok(classes[stack[1].handle])>>
        /\ UNCHANGED <<classes, created, consulted, source>>

C1_IdempotentResolution == [](C1_SameInstance) /\ [][C1_CacheHit]_vars

\* load_class on a scalar handle returned Ok without any byte source lookup
C1_Witness ==
    /\ Returned
    /\ ret[1].ok
    /\ ~IsArray(request[1])
    /\ consulted = {}

(***************************************************************************)
(* C2  Circularity.  If following the first dependency of each class from  *)
(* the requested handle (superclass of a scalar class, element class of an *)
(* array) leads back into the chain before reaching a cached class, then   *)
(* load_class returns Err(ClassCircularity); and the recursion depth never *)
(* exceeds the number of handles plus one.                                 *)
(***************************************************************************)
RECURSIVE ChainIsCircular(_, _)
ChainIsCircular(h, seen) ==
    IF h \in seen THEN TRUE
    ELSE IF h \in DOMAIN classes THEN FALSE
    ELSE IF h.kind = "Array"
    THEN LET t == h.component_type[1]
         IN  IF t.ty = "Reference"
             THEN ChainIsCircular(t.handle[1], seen \cup {h})
             ELSE ChainIsCircular(Scalar(ObjectName), seen \cup {h})
    ELSE LET file == source[h.name]
         IN  /\ file.found
             /\ file.wellformed
             /\ file.this_class = h.name
             /\ file.super_class # <<>>
             /\ ChainIsCircular(file.super_class[1], seen \cup {h})

C2_Circularity ==
    /\ (Returned /\ ChainIsCircular(request[1], {})) => ret[1] = Err("ClassCircularity")
    /\ Len(stack) <= Cardinality(Handles) + 1

\* A extends B, B extends A, and load_class(A) has returned the circularity error
C2_Witness ==
    /\ Returned
    /\ request[1] = Scalar("A")
    /\ source["A"].super_class = <<Scalar("B")>>
    /\ source["B"].super_class = <<Scalar("A")>>
    /\ Scalar("B") \notin DOMAIN classes
    /\ ret[1] = Err("ClassCircularity")

(***************************************************************************)
(* C3  Unmark-pending on every exit path.  The pending set is exactly the  *)
(* set of handles of the activations that marked and have not returned:    *)
(* a handle leaves the set when its activation returns, with Ok or Err;    *)
(* nothing is pending once load_class has returned; ClassCircularity is    *)
(* only ever raised for a handle whose resolution is in progress.          *)
(***************************************************************************)
C3_UnmarkPending ==
    /\ pending = MarkedHandles
    /\ ~Running => pending = {}

\* an array resolution failed because a nested resolution failed
C3_Witness ==
    /\ Returned
    /\ IsArray(request[1])
    /\ ~ret[1].ok
    /\ ret[1].err \in {"ClassNotFound", "NoClassDefFound", "ClassFormat"}
    /\ pending = {}

(***************************************************************************)
(* C4  Failures are not cached.  When load_class(h) has returned Err, h is *)
(* not a key of the cache; and a load_class call on a handle that is not a *)
(* key starts resolution from scratch (marks it pending and dispatches).   *)
(***************************************************************************)
C4_NoEntryAfterErr == (Returned /\ ~ret[1].ok) => request[1] \notin DOMAIN classes

C4_FromScratch ==
    (OutermostEntry /\ stack[1].handle \notin DOMAIN classes) =>
        /\ Len(stack') = 1
        /\ stack'[1].pc = "dispatch"
        /\ stack'[1].handle \in pending'
        /\ UNCHANGED classes

C4_FailuresNotCached == [](C4_NoEntryAfterErr) /\ [][C4_FromScratch]_vars

\* load_class(A) failed although other classes are cached
C4_Witness ==
    /\ Returned
    /\ ~ret[1].ok
    /\ request[1] \notin DOMAIN classes
    /\ DOMAIN classes # {}

(***************************************************************************)
(* C5  The cache only grows.  Every step keeps every key and its instance, *)
(* adds at most one key, and no handle has more than one instance          *)
(* constructed for it.                                                     *)
(***************************************************************************)
C5_Step ==
    /\ \A h \in DOMAIN classes : h \in DOMAIN classes' /\ classes'[h] = classes[h]
    /\ Cardinality(DOMAIN classes') <= Cardinality(DOMAIN classes) + 1
    /\ \A h \in Handles : created'[h] <= 1

C5_CacheOnlyGrows == [][C5_Step]_vars

\* a second class is being added to a cache that is then hit
C5_Witness ==
    /\ Cardinality(DOMAIN classes) >= 3
    /\ Returned
    /\ consulted = {}
    /\ ret[1].ok


(***************************************************************************)
(* C6  Array-class resolution order.  An array activation first requests   *)
(* the element class when the element type is a reference, and             *)
(* java/lang/Object directly when it is primitive; it requests Object only *)
(* after the element class came back Ok; the array class enters the cache  *)
(* only when Object came back Ok, with that Object instance as superclass  *)
(* and with the element class cached; an Err of either dependency becomes  *)
(* the result of the array activation and nothing is constructed.          *)
(***************************************************************************)
InnermostIsArrayAt(p) ==
    /\ stack # <<>>
    /\ stack[Len(stack)].pc = p
    /\ stack[Len(stack)].handle.kind = "Array"

Requests(h) ==
    /\ Len(stack') = Len(stack) + 1
    /\ stack'[Len(stack')].handle = h
    /\ stack'[Len(stack')].pc = "entry"
    /\ UNCHANGED <<classes, created>>

PassesOn(r) ==
    /\ Len(stack') = Len(stack)
    /\ stack'[Len(stack')].pc = "unmark"
    /\ stack'[Len(stack')].res = r
    /\ UNCHANGED <<classes, created>>

C6_Step ==
    /\ InnermostIsArrayAt("dispatch") =>
          LET t == InnermostHandle.component_type[1]
          IN  IF t.ty = "Reference" THEN Requests(t.handle[1])
              ELSE Requests(Scalar(ObjectName))
    /\ InnermostIsArrayAt("component") =>
          IF ret[1].ok THEN Requests(Scalar(ObjectName)) ELSE PassesOn(ret)
    /\ (InnermostIsArrayAt("object") /\ ~ret[1].ok) => PassesOn(ret)
    /\ InnermostIsArrayAt("unmark") => ret' = stack[Len(stack)].res
    /\ \A h \in DOMAIN classes' \ DOMAIN classes :
          h.kind = "Array" =>
             /\ InnermostIsArrayAt("object")
             /\ InnermostHandle = h
             /\ ret[1].ok
             /\ Scalar(ObjectName) \in DOMAIN classes
             /\ ret[1].class[1] = classes[Scalar(ObjectName)]
             /\ classes'[h].superclass = <<classes[Scalar(ObjectName)].id>>
             /\ h.component_type[1].ty = "Reference" =>
                   h.component_type[1].handle[1] \in DOMAIN classes
             /\ stack'[Len(stack')].res = <<Ok(classes'[h])>>

C6_ArrayResolutionOrder == [][C6_Step]_vars

\* load_class of an array of a reference type returned the new array class
C6_Witness ==
    /\ Returned
    /\ ret[1].ok
    /\ IsArray(request[1])
    /\ IsReferenceType(ComponentType(request[1]))
    /\ consulted # {}
    /\ classes[request[1]].superclass = <<classes[object_handle].id>>

(***************************************************************************)
(* C7  Scalar-class resolution order.  A scalar activation looks up its    *)
(* class file: none gives ClassNotFound, a declared name other than the    *)
(* requested one gives NoClassDefFound; the class enters the cache only    *)
(* after its superclass and all its superinterfaces have resolved (they    *)
(* are cached), with the resolved superclass instance as its superclass.   *)
(***************************************************************************)
InnermostIsScalarAt(p) ==
    /\ stack # <<>>
    /\ stack[Len(stack)].pc = p
    /\ stack[Len(stack)].handle.kind = "Scalar"

C7_Step ==
    /\ InnermostIsScalarAt("dispatch") =>
          LET file == source[InnermostHandle.name]
          IN  /\ ~file.found => PassesOn(<<Err("ClassNotFound")>>)
              /\ (file.found /\ file.wellformed /\ file.this_class # InnermostHandle.name)
                    => PassesOn(<<Err("NoClassDefFound")>>)
              /\ (file.found /\ file.wellformed /\ file.this_class = InnermostHandle.name
                    /\ file.super_class # <<>>) => Requests(file.super_class[1])
    /\ (InnermostIsScalarAt("super") /\ ~ret[1].ok) => PassesOn(ret)
    /\ (InnermostIsScalarAt("interface") /\ ~ret[1].ok) => PassesOn(ret)
    /\ \A h \in DOMAIN classes' \ DOMAIN classes :
          h.kind = "Scalar" =>
             LET file == source[h.name]
             IN  /\ InnermostHandle = h
                 /\ file.found /\ file.wellformed /\ file.this_class = h.name
                 /\ h.name \in consulted
                 /\ \A n \in 1..Len(file.interfaces) : file.interfaces[n] \in DOMAIN classes
                 /\ IF file.super_class = <<>> THEN classes'[h].superclass = <<>>
                    ELSE /\ file.super_class[1] \in DOMAIN classes
                         /\ classes'[h].superclass = <<classes[file.super_class[1]].id>>

C7_ScalarResolutionOrder == [][C7_Step]_vars

\* A, with superclass Object and superinterface B, has been loaded
C7_Witness ==
    /\ Returned
    /\ ret[1].ok
    /\ request[1] = Scalar("A")
    /\ consulted = {"A", "B", ObjectName}
    /\ source["A"].interfaces = <<Scalar("B")>>


(***************************************************************************)
(* The class file parser: parser/class_file.rs, class_file_parser.         *)
(*                                                                         *)
(* The input is read item by item: every action draws the item it reads    *)
(* next.  Fixed-width integers are read exactly; a constant pool index is  *)
(* any value of Index; the bytes of a Utf8 entry are one of Utf8Bytes.     *)
(***************************************************************************)
\* the largest constant_pool_count an input carries
MaxPoolCount == 3

\* the constant pool indices an input holds after super_class: one in an
\* interface, two in a field or method, two in an attribute (name and body)
MaxIndices == 2

Index == 0..MaxPoolCount

\* the indices a pool entry of the input carries (a Class entry's name_index, a
\* MethodRef's class_index and name_and_type_index): the first slot or the last
NameIndices == {1, MaxPoolCount}

Utf8Bytes == {"ConstantValue", "Other", ObjectName}

AttributeLengths == {2}

\* a decoded entry: index is the one index of a Class (name_index), the first
\* of a MethodRef or FieldRef (class_index); name_and_type_index is their
\* second index, and the second (descriptor_index) of a NameAndType, whose
\* first is name_index; of a String index is string_index.  An Integer or
\* Float keeps its four bytes in u32_bytes, a Long or Double its halves in
\* high_bytes and low_bytes.
Info(tag, index, bytes) ==
    [tag |-> tag, index |-> index, name_and_type_index |-> 0, bytes |-> bytes,
     u32_bytes |-> <<0, 0, 0, 0>>,
     high_bytes |-> <<0, 0, 0, 0>>, low_bytes |-> <<0, 0, 0, 0>>]

MethodRef(class_index, name_and_type_index) ==
    [Info("MethodRef", class_index, "") EXCEPT
        !.name_and_type_index = name_and_type_index]

\* what cp_info decodes: a tag byte and the payload that cp_info_info reads
CpInfos ==
    {Info("Class", n, "") : n \in NameIndices}
      \cup {Info("Utf8", 0, b) : b \in Utf8Bytes}
      \cup {Info("Long", 0, ""), Info("Double", 0, "")}
      \cup {MethodRef(ci, nti) : ci \in NameIndices, nti \in NameIndices}

Unusable == Info("Unusable", 0, "")

IsWide(entry) == entry.tag \in {"Long", "Double"}

E(kind, index, expected, actual) ==
    [kind |-> kind, index |-> index, expected |-> expected, actual |-> actual]

Failed(chain) == [status |-> "Error", error |-> chain]

Incomplete == [status |-> "Incomplete", error |-> <<>>]

Panicked == [status |-> "Panic", error |-> <<>>]

Done == [status |-> "Done", error |-> <<>>]

Attr(kind, name_index, value_index, length) ==
    [kind |-> kind, attribute_name_index |-> name_index,
     constant_value_index |-> value_index, info_len |-> length]

\* an attribute as the input carries it: name index, length, and the u2 that
\* a ConstantValue body holds
AttributeInputs ==
    {Attr("", n, v, l) : n \in Index, v \in Index, l \in AttributeLengths}

\* ConstantPool::get: one-based, None for 0 and for an index past the end
Get(constant_pool, n) ==
    IF n \in 1..Len(constant_pool) THEN <<constant_pool[n]>> ELSE <<>>

\* ConstantPoolInfo::tag
TagOf(entry) == entry.tag

\* check_cp_index_tag!: <<>> for Ok(()), otherwise the error
check_cp_index_tag(constant_pool, n, tag) ==
    LET r == Get(constant_pool, n)
    IN  IF r = <<>> THEN <<E("ConstantPoolIndexOutOfBounds", n, "", "")>>
        ELSE IF TagOf(r[1]) = tag THEN <<>>
        ELSE <<E("UnexpectedConstantPoolType", n, tag, TagOf(r[1]))>>

cp_index_tag(constant_pool, n, tag) == check_cp_index_tag(constant_pool, n, tag)

\* mutation: the optional form looks index 0 up like any other
maybe_cp_index_tagLooksUpZero(constant_pool, n, tag) ==
    check_cp_index_tag(constant_pool, n, tag)

maybe_cp_index_tag(constant_pool, n, tag) ==
    IF n # 0 THEN check_cp_index_tag(constant_pool, n, tag) ELSE <<>>

\* usize subtraction: <<>> when it overflows
usize_sub(a, b) == IF a >= b THEN <<a - b>> ELSE <<>>

\* the parser returns: its locals are dropped, only the result is left (and,
\* next to a ClassFile, the constant_pool_count its input declared)
Stop(r) ==
    /\ phase' = "stopped"
    /\ result' = <<r>>
    /\ constant_pool_count' = IF r.status = "Done" THEN constant_pool_count ELSE 0
    /\ i' = 0
    /\ entries' = <<>>
    /\ todo' = 0
    /\ budget' = 0
    /\ class_file' = IF r.status = "Done" THEN class_file ELSE EmptyClassFile
    /\ UNCHANGED <<loader, decoder>>

\* the parser goes on to the next item of the input
Continue(p) ==
    /\ phase' = p
    /\ UNCHANGED result
    /\ UNCHANGED <<loader, decoder>>

\* magic, minor_version, major_version, constant_pool_count; then the loop bound
\* `constant_pool_count as usize - 1` and Vec::with_capacity of it
parse_class_file ==
    /\ phase = "start"
    /\ \E magic_ok \in BOOLEAN, count \in 0..MaxPoolCount :
          IF ~magic_ok
          THEN Stop(Failed(<<E("ClassFile", 0, "", ""), E("Magic", 0, "", "")>>))
          ELSE IF usize_sub(count, 1) = <<>>
          THEN Stop(Panicked)
          ELSE /\ constant_pool_count' = count
               /\ budget' = MaxIndices
               /\ Continue("constant_pool")
               /\ UNCHANGED <<i, entries, class_file, todo>>

ClassFileError(chain) == Failed(<<E("ClassFile", 0, "", "")>> \o chain)

PoolError(cause) ==
    ClassFileError(<<E("ConstantPool", constant_pool_count, "", ""),
                     E("ConstantPoolEntry", i, "", ""),
                     E("ConstantPoolInfo", 0, "", ""),
                     cause>>)

\* how far one decoded entry advances the pool index
Advance(entry) == IF IsWide(entry) THEN 2 ELSE 1

\* mutation: a wide entry is pushed without its placeholder
PushedAlone(entry) == <<entry>>

\* what one decoded entry appends to the Vec
Pushed(entry) == IF IsWide(entry) THEN <<entry, Unusable>> ELSE <<entry>>

\* one iteration of the while loop of constant_pool_special_count!
constant_pool_special_count ==
    /\ phase = "constant_pool"
    /\ i < usize_sub(constant_pool_count, 1)[1]
    /\ \/ \E entry \in CpInfos :
             /\ entries' = entries \o Pushed(entry)
             /\ i' = i + Advance(entry)
             /\ Continue("constant_pool")
             /\ UNCHANGED <<constant_pool_count, class_file, todo, budget>>
       \/ Stop(PoolError(E("UnknownConstantPoolTag", 0, "", "")))
       \/ Stop(Incomplete)

\* ConstantPool::from_zero_indexed_vec
from_zero_indexed_vec(vec) == vec

\* the loop ends: done!(input, entries); the Vec is moved into the ConstantPool
\* and the loop's locals go out of scope
constant_pool ==
    /\ phase = "constant_pool"
    /\ ~(i < usize_sub(constant_pool_count, 1)[1])
    /\ class_file' = [class_file EXCEPT !.constant_pool = from_zero_indexed_vec(entries)]
    /\ entries' = <<>>
    /\ i' = 0
    /\ Continue("this_class")
    /\ UNCHANGED <<constant_pool_count, todo, budget>>

\* access_flags; this_class: c!(cp_index_tag, &constant_pool, Tag::Class)
this_class ==
    /\ phase = "this_class"
    /\ \E n \in Index :
          LET err == cp_index_tag(class_file.constant_pool, n, "Class")
          IN  IF err # <<>>
              THEN Stop(ClassFileError(err))
              ELSE /\ class_file' = [class_file EXCEPT !.this_class = n]
                   /\ Continue("super_class")
                   /\ UNCHANGED <<constant_pool_count, i, entries, todo, budget>>

\* super_class: c!(maybe_cp_index_tag, &constant_pool, Tag::Class)
super_class ==
    /\ phase = "super_class"
    /\ \E n \in Index :
          LET err == maybe_cp_index_tag(class_file.constant_pool, n, "Class")
          IN  IF err # <<>>
              THEN Stop(ClassFileError(err))
              ELSE /\ class_file' = [class_file EXCEPT !.super_class = n]
                   /\ Continue("interfaces_count")
                   /\ UNCHANGED <<constant_pool_count, i, entries, todo, budget>>

\* a u2 count of a list whose items hold at least `indices` indices each;
\* budget is what is left of the input
ReadCount(from, to, indices) ==
    /\ phase = from
    /\ todo = 0
    /\ \/ \E n \in 0..(budget \div indices) :
             /\ todo' = n
             /\ Continue(to)
             /\ UNCHANGED <<constant_pool_count, i, entries, class_file, budget>>
       \/ Stop(Incomplete)

interfaces_count == ReadCount("interfaces_count", "interfaces", 1)

\* one item of count!(c!(cp_index), interfaces_count)
interface ==
    /\ phase = "interfaces"
    /\ todo > 0
    /\ \/ /\ budget >= 1
          /\ \E n \in Index :
                class_file' = [class_file EXCEPT !.interfaces = Append(@, n)]
          /\ todo' = todo - 1
          /\ budget' = budget - 1
          /\ Continue("interfaces")
          /\ UNCHANGED <<constant_pool_count, i, entries>>
       \/ Stop(Incomplete)

fields_count == ReadCount("interfaces", "fields", 2)

\* attribute_info_switch: the body is chosen by the bytes of the name
attribute_info_switch(attribute_name, input) ==
    IF attribute_name = "ConstantValue"
    THEN Attr("ConstantValue", 0, input.constant_value_index, 0)
    ELSE Attr("Unknown", input.attribute_name_index, 0, input.info_len)

\* attribute_info behind attribute: [err, value]
attribute_info(pool, input) ==
    LET r == Get(pool, input.attribute_name_index)
    IN  IF r = <<>>
        THEN [err |-> <<E("AttributeInfoNameIndexOutOfBounds",
                          input.attribute_name_index, "", "")>>,
              value |-> <<>>]
        ELSE IF r[1].tag = "Utf8"
        THEN [err |-> <<>>, value |-> <<attribute_info_switch(r[1].bytes, input)>>]
        ELSE [err |-> <<E("UnexpectedConstantPoolType",
                          input.attribute_name_index, "Utf8", TagOf(r[1]))>>,
              value |-> <<>>]

\* count!(c!(attribute, constant_pool), attributes_count): the first failure ends it
RECURSIVE attributes(_, _)
attributes(pool, inputs) ==
    IF inputs = <<>> THEN [err |-> <<>>, value |-> <<>>]
    ELSE LET first == attribute_info(pool, Head(inputs))
         IN  IF first.err # <<>>
             THEN [err |-> <<E("Attribute", 0, "", "")>> \o first.err, value |-> <<>>]
             ELSE LET rest == attributes(pool, Tail(inputs))
                  IN  IF rest.err # <<>> THEN rest
                      ELSE [err |-> <<>>, value |-> first.value \o rest.value]

Member(name_index, descriptor_index, attrs) ==
    [name_index |-> name_index, descriptor_index |-> descriptor_index,
     attributes |-> attrs]

\* field and method: name_index and descriptor_index are read by cp_index
MemberInfo(list, info, attrs_error) ==
    /\ todo > 0
    /\ \/ \E name_index \in Index, descriptor_index \in Index :
          \E n \in 0..((budget - 2) \div 2) : \E inputs \in [1..n -> AttributeInputs] :
             LET attrs == attributes(class_file.constant_pool, inputs)
                 count == Len(class_file[list]) + todo
             IN  IF attrs.err # <<>>
                 THEN Stop(ClassFileError(
                          <<E(list, count, "", ""), E(info, 0, "", ""),
                            E(attrs_error, n, "", "")>> \o attrs.err))
                 ELSE /\ class_file' =
                            [class_file EXCEPT
                               ![list] = Append(@, Member(name_index, descriptor_index,
                                                          attrs.value))]
                      /\ todo' = todo - 1
                      /\ budget' = budget - 2 - 2 * n
                      /\ UNCHANGED <<phase, result, loader, decoder>>
                      /\ UNCHANGED <<constant_pool_count, i, entries>>
       \/ Stop(Incomplete)

field ==
    /\ phase = "fields"
    /\ MemberInfo("fields", "FieldInfo", "FieldAttributes")

methods_count == ReadCount("fields", "methods", 2)

method ==
    /\ phase = "methods"
    /\ MemberInfo("methods", "MethodInfo", "MethodAttributes")

attributes_count == ReadCount("methods", "attributes", 2)

\* one item of the class's count!(c!(attribute, &constant_pool), attributes_count)
attribute ==
    /\ phase = "attributes"
    /\ todo > 0
    /\ \/ \E input \in {a \in AttributeInputs : budget >= 2} :
             LET a == attribute_info(class_file.constant_pool, input)
                 count == Len(class_file.attributes) + todo
             IN  IF a.err # <<>>
                 THEN Stop(ClassFileError(
                          <<E("ClassAttributes", count, "", ""),
                            E("Attribute", 0, "", "")>> \o a.err))
                 ELSE /\ class_file' =
                            [class_file EXCEPT !.attributes = @ \o a.value]
                      /\ todo' = todo - 1
                      /\ budget' = budget - 2
                      /\ Continue("attributes")
                      /\ UNCHANGED <<constant_pool_count, i, entries>>
       \/ Stop(Incomplete)

\* the closure of chain!: the ClassFile is built and returned
class_file_parser ==
    /\ phase = "attributes"
    /\ todo = 0
    /\ Stop(Done)

\* another input is handed to parse_class_file
parse_again ==
    /\ phase = "stopped"
    /\ phase' = "start"
    /\ result' = <<>>
    /\ class_file' = EmptyClassFile
    /\ constant_pool_count' = 0
    /\ output' = <<>>
    /\ UNCHANGED <<i, entries, todo, budget, data>>
    /\ UNCHANGED loader

ParserInit ==
    /\ classes = <<>>
    /\ pending = {}
    /\ stack = <<>>
    /\ ret = <<>>
    /\ created = [h \in Handles |-> 0]
    /\ source = CHOOSE s \in Sources : TRUE
    /\ consulted = {}
    /\ request = <<>>
    /\ ParserAtStart
    /\ data = <<>>
    /\ output = <<>>

ParserNext ==
    \/ parse_class_file
    \/ constant_pool_special_count
    \/ constant_pool
    \/ this_class
    \/ super_class
    \/ interfaces_count
    \/ interface
    \/ fields_count
    \/ field
    \/ methods_count
    \/ method
    \/ attributes_count
    \/ attribute
    \/ class_file_parser
    \/ parse_again

ParserSpec == ParserInit /\ [][ParserNext]_vars

ParserTypeOK ==
    /\ phase \in {"start", "constant_pool", "this_class", "super_class",
                  "interfaces_count", "interfaces", "fields", "methods",
                  "attributes", "stopped"}
    /\ constant_pool_count \in 0..MaxPoolCount
    /\ i \in 0..(MaxPoolCount + 1)
    /\ todo \in 0..MaxIndices
    /\ budget \in 0..MaxIndices
    /\ Len(result) <= 1


(***************************************************************************)
(* Claims about the constant pool of a parsed class file                   *)
(***************************************************************************)
Parsed == phase = "stopped" /\ result = <<Done>>

WideTags == {"Long", "Double"}

\* slot n of the pool is the one a Long or Double before it makes unusable
AfterWide(pool, n) == n \in 2..Len(pool) /\ pool[n - 1].tag \in WideTags

\* C8, in a pool: the slot after each Long/Double is Unusable, no other slot is
C8_Placeholders(pool) ==
    \A n \in 1..Len(pool) : (pool[n].tag = "Unusable") <=> AfterWide(pool, n)

\* C8, in a decoding step: a Long/Double advances the pool index by 2 and is
\* followed by an Unusable placeholder, any other entry advances it by 1
C8_Step ==
    (phase = "constant_pool" /\ phase' = "constant_pool" /\ entries' # entries) =>
        /\ Len(entries') > Len(entries)
        /\ SubSeq(entries', 1, Len(entries)) = entries
        /\ LET entry == entries'[Len(entries) + 1]
           IN  IF entry.tag \in WideTags
               THEN /\ i' = i + 2
                    /\ Len(entries') = Len(entries) + 2
                    /\ entries'[Len(entries) + 2].tag = "Unusable"
               ELSE /\ i' = i + 1
                    /\ Len(entries') = Len(entries) + 1

\* C8: wide-entry slot rule: while the pool is decoded every entry advances the
\* pool index by 1, except Long and Double, which advance it by 2 and are
\* followed by an Unusable placeholder; in the pool being built and in every
\* parsed pool the slot after each Long/Double is Unusable and no other slot is
C8_WideEntrySlotRule ==
    /\ [](C8_Placeholders(entries) /\ C8_Placeholders(class_file.constant_pool))
    /\ [][C8_Step]_vars

\* C8 witness: a class file was parsed whose pool holds a Long or Double, its
\* placeholder, and an entry that took one slot
C8_Witness ==
    /\ Parsed
    /\ \E n \in 1..Len(class_file.constant_pool) :
          /\ class_file.constant_pool[n].tag \in WideTags
          /\ n < Len(class_file.constant_pool)
          /\ class_file.constant_pool[n + 1].tag = "Unusable"
    /\ \E n \in 1..Len(class_file.constant_pool) :
          class_file.constant_pool[n].tag = "Class"

\* every constant pool index the parsed class file holds, wherever it is
RECURSIVE IndicesOfAttributes(_)
IndicesOfAttributes(list) ==
    IF list = <<>> THEN {}
    ELSE (IF Head(list).kind = "ConstantValue"
          THEN {Head(list).constant_value_index}
          ELSE {Head(list).attribute_name_index})
         \cup IndicesOfAttributes(Tail(list))

RECURSIVE IndicesOfMembers(_)
IndicesOfMembers(list) ==
    IF list = <<>> THEN {}
    ELSE {Head(list).name_index, Head(list).descriptor_index}
         \cup IndicesOfAttributes(Head(list).attributes)
         \cup IndicesOfMembers(Tail(list))

References(cf) ==
    {cf.this_class, cf.super_class}
      \cup {cf.interfaces[n] : n \in 1..Len(cf.interfaces)}
      \cup IndicesOfMembers(cf.fields)
      \cup IndicesOfMembers(cf.methods)
      \cup IndicesOfAttributes(cf.attributes)
      \cup {cf.constant_pool[n].index :
              n \in {m \in 1..Len(cf.constant_pool) :
                        cf.constant_pool[m].tag \in {"Class", "MethodRef"}}}
      \cup {cf.constant_pool[n].name_and_type_index :
              n \in {m \in 1..Len(cf.constant_pool) :
                        cf.constant_pool[m].tag = "MethodRef"}}

\* C9: if the pool holds a Long or Double at index n, a reference to index n+1
\* from anywhere in the file (this_class, super_class, an interface, a field's
\* or method's name or descriptor, an attribute's index, another pool entry)
\* makes the parse fail: no parsed class file holds such a reference
C9_PlaceholderReferenceFails ==
    Parsed => \A n \in References(class_file) : ~AfterWide(class_file.constant_pool, n)

\* C10: for every class file that parses, the length of the constant pool,
\* placeholders included, is the header's constant_pool_count - 1, also when
\* the last decoded entry is a Long or Double
C10_PoolSize ==
    Parsed => Len(class_file.constant_pool) = constant_pool_count - 1


(***************************************************************************)
(* Claims about index-validated reads                                      *)
(***************************************************************************)
Tags == {"Class", "Utf8", "Long", "Double", "MethodRef", "Unusable"}

\* the indices a u2 read may yield, one past the largest pool included
ReadIndices == 0..(MaxPoolCount + 1)

InRange(pool, n) == n \in 1..Len(pool)

\* C11, required form on one input: Ok exactly for a nonzero index in range
\* whose entry has the tag; otherwise the error the claim names
C11_Required(pool, n, tag) ==
    LET r == cp_index_tag(pool, n, tag)
    IN  IF ~InRange(pool, n)
        THEN r = <<E("ConstantPoolIndexOutOfBounds", n, "", "")>>
        ELSE IF pool[n].tag = tag
        THEN r = <<>>
        ELSE r = <<E("UnexpectedConstantPoolType", n, tag, pool[n].tag)>>

\* C11, optional form on one input: 0 is accepted, any other index is treated
\* as by the required form
C11_Optional(pool, n, tag) ==
    LET r == maybe_cp_index_tag(pool, n, tag)
    IN  IF n = 0 THEN r = <<>> ELSE r = cp_index_tag(pool, n, tag)

\* the cause of a failed parse: the innermost error
Cause == result[1].error[Len(result[1].error)]

\* C11, at the reads of this_class (required) and super_class (optional): a
\* read that succeeds leaves the index it checked in the class file, a read
\* that fails reports that index
C11_Step ==
    LET pool == class_file.constant_pool
        ok(n) == InRange(pool, n) /\ pool[n].tag = "Class"
        bad(e) == \/ e.kind = "ConstantPoolIndexOutOfBounds" /\ ~InRange(pool, e.index)
                  \/ /\ e.kind = "UnexpectedConstantPoolType"
                     /\ InRange(pool, e.index)
                     /\ e.expected = "Class"
                     /\ e.actual = pool[e.index].tag
                     /\ e.actual # "Class"
    IN  /\ (phase = "this_class" /\ phase' = "super_class") =>
               ok(class_file'.this_class)
        /\ (phase = "this_class" /\ phase' = "stopped") =>
               /\ result'[1].status = "Error"
               /\ bad(Cause')
        /\ (phase = "super_class" /\ phase' = "interfaces_count") =>
               class_file'.super_class = 0 \/ ok(class_file'.super_class)
        /\ (phase = "super_class" /\ phase' = "stopped") =>
               /\ result'[1].status = "Error"
               /\ Cause'.index # 0
               /\ bad(Cause')

PointsAt(pool, n, tag) == InRange(pool, n) => pool[n].tag = tag

\* C12: tag validation inside the pool: a class file whose pool holds a
\* MethodRef whose class_index points at a Utf8 entry fails with a tag
\* mismatch (expected Class, actual Utf8), and likewise for name-and-type
\* indices and Class name indices: in no parsed class file does an index of a
\* pool entry point at an entry of another tag than its use expects
C12_PoolTagValidation ==
    Parsed =>
        \A n \in 1..Len(class_file.constant_pool) :
            LET pool == class_file.constant_pool
                entry == pool[n]
            IN  /\ entry.tag = "MethodRef" =>
                      /\ PointsAt(pool, entry.index, "Class")
                      /\ PointsAt(pool, entry.name_and_type_index, "NameAndType")
                /\ entry.tag = "Class" => PointsAt(pool, entry.index, "Utf8")


\* index n is in range of the pool and holds an entry with one of these tags
Validated(pool, n, tags) == InRange(pool, n) /\ pool[n].tag \in tags

\* the tags of the entries a ConstantValue attribute may name
ConstantValueTags == {"Integer", "Float", "Long", "Double", "String"}

RECURSIVE AttributesValidated(_, _)
AttributesValidated(pool, list) ==
    \/ list = <<>>
    \/ /\ Head(list).kind = "ConstantValue" =>
             Validated(pool, Head(list).constant_value_index, ConstantValueTags)
       /\ AttributesValidated(pool, Tail(list))

RECURSIVE MembersValidated(_, _)
MembersValidated(pool, list) ==
    \/ list = <<>>
    \/ /\ Validated(pool, Head(list).name_index, {"Utf8"})
       /\ Validated(pool, Head(list).descriptor_index, {"Utf8"})
       /\ AttributesValidated(pool, Head(list).attributes)
       /\ MembersValidated(pool, Tail(list))

\* C13: every pool index read after the constant pool is validated: in any
\* parsed class file this_class and each interface index point at a Class
\* entry, each field's and method's name_index and descriptor_index point at
\* Utf8 entries, and every index of a recognized attribute is in range and
\* points at an entry of the tag its use expects
C13_IndicesValidated ==
    Parsed =>
        LET pool == class_file.constant_pool
        IN  /\ Validated(pool, class_file.this_class, {"Class"})
            /\ \A n \in 1..Len(class_file.interfaces) :
                  Validated(pool, class_file.interfaces[n], {"Class"})
            /\ MembersValidated(pool, class_file.fields)
            /\ MembersValidated(pool, class_file.methods)
            /\ AttributesValidated(pool, class_file.attributes)


\* the name a Class entry at index n gives: the bytes of the Utf8 entry its
\* name_index points at, <<>> when the chain does not lead to one
ClassName(pool, n) ==
    IF ~Validated(pool, n, {"Class"}) THEN <<>>
    ELSE IF ~Validated(pool, pool[n].index, {"Utf8"}) THEN <<>>
    ELSE <<pool[pool[n].index].bytes>>

\* C14: super_class may be zero only for the root class: a class file whose
\* super_class is 0 parses only if its this_class names java/lang/Object, and
\* a nonzero super_class of a parsed class file points at a Class entry (stated
\* of the class files whose this_class has a name)
C14_SuperClassZeroOnlyForRoot ==
    (Parsed /\ ClassName(class_file.constant_pool, class_file.this_class) # <<>>) =>
        IF class_file.super_class = 0
        THEN ClassName(class_file.constant_pool, class_file.this_class) = <<ObjectName>>
        ELSE Validated(class_file.constant_pool, class_file.super_class, {"Class"})

\* a class file that names the root class and has no superclass was parsed
RootClassParsed ==
    /\ Parsed
    /\ class_file.super_class = 0
    /\ ClassName(class_file.constant_pool, class_file.this_class) = <<ObjectName>>


(***************************************************************************)
(* Byte-level parsers: one call on one input.                              *)
(***************************************************************************)
\* the longest input handed to a byte-level parser
MaxBytes == 2

\* the byte values the bodies of raw attributes are drawn from
BodyBytes == {0, 255}

RECURSIVE SeqsUpTo(_, _)
SeqsUpTo(S, n) ==
    IF n = 0 THEN {<<>>}
    ELSE LET shorter == SeqsUpTo(S, n - 1)
         IN  shorter \cup {Append(q, x) : q \in {r \in shorter : Len(r) = n - 1}, x \in S}

\* every part of the model but the byte-level call is at rest
Idle ==
    /\ classes = <<>>
    /\ pending = {}
    /\ stack = <<>>
    /\ ret = <<>>
    /\ created = [h \in Handles |-> 0]
    /\ source = CHOOSE src \in Sources : TRUE
    /\ consulted = {}
    /\ request = <<>>
    /\ ParserAtStart

\* nom's take!(n): the first n bytes and the rest, Incomplete when fewer remain
take(bytes, n) ==
    IF Len(bytes) < n
    THEN [status |-> "Incomplete", value |-> <<>>, rest |-> <<>>]
    ELSE [status |-> "Done", value |-> SubSeq(bytes, 1, n),
          rest |-> SubSeq(bytes, n + 1, Len(bytes))]

\* the names whose bodies attribute_info_switch keeps as raw bytes: the
\* SourceDebugExtension arm and a name that no arm matches
RawNames == {"SourceDebugExtension", "Other"}

RawAttribute(kind, name_index, bytes) ==
    [kind |-> kind, attribute_name_index |-> name_index, bytes |-> bytes]

\* mutation: the body runs to the end of the input, whatever the length says
attribute_info_switch_rawToEnd(attribute_name, attribute_name_index, attribute_length, bytes) ==
    [status |-> "Done", rest |-> <<>>,
     value |-> RawAttribute(IF attribute_name = "SourceDebugExtension"
                            THEN "SourceDebugExtension" ELSE "Unknown",
                            IF attribute_name = "SourceDebugExtension"
                            THEN 0 ELSE attribute_name_index, bytes)]

\* attribute_info_switch on the bytes of a body, for the arms that take
\* attribute_length bytes: SourceDebugExtension and the catch-all (Unknown)
attribute_info_switch_raw(attribute_name, attribute_name_index, attribute_length, bytes) ==
    LET taken == take(bytes, attribute_length)
    IN  IF taken.status # "Done"
        THEN [status |-> taken.status, rest |-> <<>>, value |-> RawAttribute("", 0, <<>>)]
        ELSE IF attribute_name = "SourceDebugExtension"
        THEN [status |-> "Done", rest |-> taken.rest,
              value |-> RawAttribute("SourceDebugExtension", 0, taken.value)]
        ELSE [status |-> "Done", rest |-> taken.rest,
              value |-> RawAttribute("Unknown", attribute_name_index, taken.value)]

\* one call of attribute_info_switch on a raw body
raw_attribute ==
    /\ output = <<>>
    /\ \E name \in RawNames, name_index \in Index, length \in 0..(MaxBytes + 1) :
          output' = <<[attribute_name |-> name, attribute_name_index |-> name_index,
                       attribute_length |-> length,
                       result |-> attribute_info_switch_raw(name, name_index, length, data)]>>
    /\ UNCHANGED <<data, loader, parser>>

RawAttributeInit ==
    /\ Idle
    /\ data \in SeqsUpTo(BodyBytes, MaxBytes)
    /\ output = <<>>

RawAttributeNext == raw_attribute

RawAttributeSpec == RawAttributeInit /\ [][RawAttributeNext]_vars

\* C15: raw attribute bodies consume exactly the declared length: for a name
\* that is not recognized and for SourceDebugExtension the parser takes exactly
\* attribute_length bytes whatever they hold, returns them verbatim (Unknown
\* with the name index), leaves the rest of the input, and reports no error
\* when at least attribute_length bytes remain
C15_RawBodyExactLength ==
    output # <<>> =>
        LET call == output[1]
            r == call.result
            n == call.attribute_length
        IN  IF n <= Len(data)
            THEN /\ r.status = "Done"
                 /\ r.value.bytes = [k \in 1..n |-> data[k]]
                 /\ r.rest = [k \in 1..(Len(data) - n) |-> data[n + k]]
                 /\ call.attribute_name = "SourceDebugExtension" =>
                        r.value.kind = "SourceDebugExtension"
                 /\ call.attribute_name # "SourceDebugExtension" =>
                        /\ r.value.kind = "Unknown"
                        /\ r.value.attribute_name_index = call.attribute_name_index
            ELSE r.status = "Incomplete"

\* C15 witness: an unrecognized attribute of length 1 was read from 2 bytes
C15_Witness ==
    /\ output # <<>>
    /\ output[1].attribute_name = "Other"
    /\ output[1].attribute_length = 1
    /\ Len(data) = 2
    /\ output[1].result.status = "Done"
    /\ Len(output[1].result.rest) = 1


(***************************************************************************)
(* StackMapTable frames: stack_map_frame and stack_map_frame_info.         *)
(*                                                                         *)
(* The input of one frame is its tag byte and the u2 fields that follow:   *)
(* data = <<tag, offset_delta, num_locals, num_stack>>; a frame kind reads *)
(* the fields it has.  The verification_type_info items of a frame are     *)
(* counted, not decoded.                                                   *)
(***************************************************************************)
Byte == 0..255

\* the explicit u2 offsets and counts an input holds
Offsets == {0, 300}

ItemCounts == {0, 2}

\* u8 subtraction as the target computes it: the difference modulo 2^8, and
\* whether it wrapped (a panic in a build with overflow checks)
u8_sub(a, b) ==
    [value |-> (a - b + 256) % 256, underflow |-> a < b]

\* attribute::stack_map_frame::Tag::from: the kind a tag byte stands for
StackMapFrameTag(t) ==
    IF t <= 63 THEN "SameFrame"
    ELSE IF t <= 127 THEN "SameLocals1StackItemFrame"
    ELSE IF t <= 246 THEN "Reserved"
    ELSE IF t = 247 THEN "SameLocals1StackItemFrameExtended"
    ELSE IF t <= 250 THEN "ChopFrame"
    ELSE IF t = 251 THEN "SameFrameExtended"
    ELSE IF t <= 254 THEN "AppendFrame"
    ELSE IF t = 255 THEN "FullFrame"
    ELSE "Unknown"

StackMapFrame(kind, offset_delta, chopped, nlocals, nstack, underflow) ==
    [status |-> "Done", kind |-> kind, offset_delta |-> offset_delta,
     num_chopped |-> chopped, locals |-> nlocals, stack |-> nstack,
     underflow |-> underflow, tag |-> 0]

StackMapFrameError(kind, t) ==
    [status |-> "Error", kind |-> kind, offset_delta |-> 0, num_chopped |-> 0,
     locals |-> 0, stack |-> 0, underflow |-> FALSE, tag |-> t]

\* mutation: the chopped locals are counted from the wrong end of the range
num_choppedFromBelow(t) == u8_sub(t, 247)

\* ChopFrame: num_chopped: 251 - t
num_chopped(t) == u8_sub(251, t)

\* mutation: a reserved tag is reported as an unknown one
reserved_tagAsUnknown(t) == StackMapFrameError("UnknownStackMapFrameTag", t)

\* Tag::Reserved(t) => p_fail!(Error::ReservedStackMapFrameTag { tag: t })
reserved_tag(t) == StackMapFrameError("ReservedStackMapFrameTag", t)

\* stack_map_frame_info: the frame for a tag of kind `tag` carrying byte t
stack_map_frame_info(tag, t, offset_delta, num_locals, num_stack) ==
    IF tag = "SameFrame"
    THEN StackMapFrame("SameFrame", t, 0, 0, 0, FALSE)
    ELSE IF tag = "SameLocals1StackItemFrame"
    THEN StackMapFrame("SameLocals1StackItemFrame", u8_sub(t, 64).value, 0, 0, 1,
                       u8_sub(t, 64).underflow)
    ELSE IF tag = "SameLocals1StackItemFrameExtended"
    THEN StackMapFrame("SameLocals1StackItemFrameExtended", offset_delta, 0, 0, 1, FALSE)
    ELSE IF tag = "ChopFrame"
    THEN StackMapFrame("ChopFrame", offset_delta, num_chopped(t).value, 0, 0,
                       num_chopped(t).underflow)
    ELSE IF tag = "SameFrameExtended"
    THEN StackMapFrame("SameFrameExtended", offset_delta, 0, 0, 0, FALSE)
    ELSE IF tag = "AppendFrame"
    THEN StackMapFrame("AppendFrame", offset_delta, 0,
                       IF t >= 251 THEN t - 251 ELSE 0, 0, t < 251)
    ELSE IF tag = "FullFrame"
    THEN StackMapFrame("FullFrame", offset_delta, 0, num_locals, num_stack, FALSE)
    ELSE IF tag = "Reserved"
    THEN reserved_tag(t)
    ELSE StackMapFrameError("UnknownStackMapFrameTag", t)

\* stack_map_frame: the tag byte is read and classified, then the frame
stack_map_frame ==
    /\ output = <<>>
    /\ output' = <<stack_map_frame_info(StackMapFrameTag(data[1]), data[1],
                                        data[2], data[3], data[4])>>
    /\ UNCHANGED <<data, loader, parser>>

StackMapInit ==
    /\ Idle
    /\ data \in {<<t, o, l, k>> : t \in Byte, o \in Offsets, l \in ItemCounts, k \in ItemCounts}
    /\ output = <<>>

StackMapNext == stack_map_frame

StackMapSpec == StackMapInit /\ [][StackMapNext]_vars

\* C16: StackMapTable tag arithmetic: t in 0..63 is SameFrame with offset t;
\* 64..127 SameLocals1StackItemFrame with offset t - 64; 247 the extended
\* form with the explicit offset; 248..250 ChopFrame with num_chopped
\* 251 - t (1..3); 251 SameFrameExtended; 252..254 AppendFrame with t - 251
\* locals (1..3); 255 FullFrame with explicit counts; no subtraction underflows
C16_StackMapTagArithmetic ==
    output # <<>> =>
        LET t == data[1]
            f == output[1]
        IN  /\ ~f.underflow
            /\ t \in 0..63 =>
                  f.status = "Done" /\ f.kind = "SameFrame" /\ f.offset_delta = t
            /\ t \in 64..127 =>
                  /\ f.status = "Done" /\ f.kind = "SameLocals1StackItemFrame"
                  /\ f.offset_delta = t - 64
            /\ t = 247 =>
                  /\ f.status = "Done" /\ f.kind = "SameLocals1StackItemFrameExtended"
                  /\ f.offset_delta = data[2]
            /\ t \in 248..250 =>
                  /\ f.status = "Done" /\ f.kind = "ChopFrame"
                  /\ f.num_chopped = 251 - t /\ f.num_chopped \in 1..3
                  /\ f.offset_delta = data[2]
            /\ t = 251 =>
                  /\ f.status = "Done" /\ f.kind = "SameFrameExtended"
                  /\ f.offset_delta = data[2]
            /\ t \in 252..254 =>
                  /\ f.status = "Done" /\ f.kind = "AppendFrame"
                  /\ f.locals = t - 251 /\ f.locals \in 1..3
                  /\ f.offset_delta = data[2]
            /\ t = 255 =>
                  /\ f.status = "Done" /\ f.kind = "FullFrame"
                  /\ f.offset_delta = data[2]
                  /\ f.locals = data[3] /\ f.stack = data[4]

\* C16 witness: a ChopFrame of tag 248 was decoded
C16_Witness ==
    /\ output # <<>>
    /\ data[1] = 248
    /\ output[1].kind = "ChopFrame"
    /\ output[1].num_chopped = 3

\* C17: reserved frame tags are a distinct failure: a tag in 128..246 fails
\* with ReservedStackMapFrameTag carrying the tag, never with
\* UnknownStackMapFrameTag and never with a frame; every tag byte is of one of
\* the frame kinds or reserved
C17_ReservedStackMapFrameTag ==
    output # <<>> =>
        LET t == data[1]
            f == output[1]
        IN  /\ t \in 128..246 =>
                  /\ f.status = "Error"
                  /\ f.kind = "ReservedStackMapFrameTag"
                  /\ f.tag = t
            /\ t \notin 128..246 => f.status = "Done"
            /\ f.kind # "UnknownStackMapFrameTag"

\* C17 witness: the reserved tag 128 was rejected
C17_Witness ==
    /\ output # <<>>
    /\ data[1] = 128
    /\ output[1].status = "Error"


(***************************************************************************)
(* Modified UTF-8: the parser's byte filter (parser/class_file.rs) and     *)
(* ModifiedUtf8String::to_string / to_utf16 (vm/constant_pool.rs).         *)
(* Bytes are numbers 0..255; the hexadecimal of the source is in comments. *)
(***************************************************************************)
\* the byte groups an input is put together from
MaxChunks == 2

Chunks ==
    { <<65>>,              \* 41: 'A'
      <<127>>,             \* 7F
      <<0>>,               \* 00: illegal
      <<245>>,             \* F5: illegal
      <<128>>,             \* 80: a continuation byte
      <<194>>,             \* C2: a two-byte lead without its continuation
      <<192, 128>>,        \* C0 80: the null character
      <<195, 169>>,        \* C3 A9: U+00E9
      <<226, 130, 172>>,   \* E2 82 AC: U+20AC
      <<237, 160, 128>>,   \* ED A0 80: high surrogate D800
      <<237, 160, 189>>,   \* ED A0 BD: high surrogate D83D
      <<237, 160, 0>>,     \* ED A0 00: a high surrogate's lead with an illegal byte
      <<237, 176, 128>>,   \* ED B0 80: low surrogate DC00
      <<237, 184, 128>> }  \* ED B8 80: low surrogate DE00

RECURSIVE Concatenations(_)
Concatenations(n) ==
    IF n = 0 THEN {<<>>}
    ELSE LET shorter == Concatenations(n - 1)
         IN  shorter \cup {q \o c : q \in shorter, c \in Chunks}

RECURSIVE And(_, _)
\* a & b
And(a, b) ==
    IF a = 0 \/ b = 0 THEN 0
    ELSE ((a % 2) * (b % 2)) + (2 * And(a \div 2, b \div 2))

\* a << k in an unsigned type of `width` bits: the low width - k bits of a
\* move up, the others are shifted out
Shl(a, k, width) == (a % 2^(width - k)) * 2^k

\* a >> k
Shr(a, k) == a \div 2^k

\* x as u8
AsU8(x) == x % 256

Decoded(fn, status, value, message) ==
    [fn |-> fn, status |-> status, value |-> value, message |-> message]

\* the filter of modified_utf8: 0x00 and 0xf0..0xff are refused
IsLegalByte(b) ==
    b \notin {0, 240, 241, 242, 243, 244, 245, 246, 247, 248, 249, 250, 251,
              252, 253, 254, 255}

RECURSIVE count_modified_utf8(_, _, _)
\* count!(c!(modified_utf8), n) from the k-th byte on
count_modified_utf8(bytes, n, k) ==
    IF k > n THEN Decoded("take_modified_utf8", "Done", SubSeq(bytes, 1, n), "")
    ELSE IF k > Len(bytes) THEN Decoded("take_modified_utf8", "Incomplete", <<>>, "")
    ELSE IF IsLegalByte(bytes[k]) THEN count_modified_utf8(bytes, n, k + 1)
    ELSE Decoded("take_modified_utf8", "Error", <<bytes[k]>>, "IllegalModifiedUtf8")

\* take_modified_utf8!(input, n); an Error carries the byte refused
take_modified_utf8(bytes, n) == count_modified_utf8(bytes, n, 1)

\* self.bytes[i], the source's indices counting from zero
ByteAt(bytes, ix) == bytes[ix + 1]

\* a continuation byte 0x80..0xbf
IsContinuation(b) == 128 <= b /\ b <= 191

RECURSIVE from_utf8(_, _)
\* String::from_utf8 accepts the bytes from index i on: well-formed UTF-8,
\* overlong forms, surrogates and values above U+10FFFF refused
from_utf8(utf8, ix) ==
    LET len == Len(utf8)
        b   == ByteAt(utf8, ix)
        c(k) == ByteAt(utf8, ix + k)
    IN  IF ix >= len THEN TRUE
        ELSE IF b <= 127 THEN from_utf8(utf8, ix + 1)
        ELSE IF 194 <= b /\ b <= 223
            THEN len >= ix + 2 /\ IsContinuation(c(1)) /\ from_utf8(utf8, ix + 2)
        ELSE IF 224 <= b /\ b <= 239
            THEN /\ len >= ix + 3
                 /\ IsContinuation(c(1)) /\ IsContinuation(c(2))
                 /\ (b = 224 => c(1) >= 160)
                 /\ (b = 237 => c(1) <= 159)
                 /\ from_utf8(utf8, ix + 3)
        ELSE IF 240 <= b /\ b <= 244
            THEN /\ len >= ix + 4
                 /\ IsContinuation(c(1)) /\ IsContinuation(c(2)) /\ IsContinuation(c(3))
                 /\ (b = 240 => c(1) >= 144)
                 /\ (b = 244 => c(1) <= 143)
                 /\ from_utf8(utf8, ix + 4)
        ELSE FALSE

\* the code point to_string computes from a surrogate pair at i: in Rust
\* `+` binds tighter than `&`, so 0x10000 is added to the last operand only
surrogate_code_point(bytes, ix) ==
    And(And(And(Shl(And(ByteAt(bytes, ix + 1), 15), 16, 32),
                Shl(And(ByteAt(bytes, ix + 2), 63), 10, 32)),
            Shl(And(ByteAt(bytes, ix + 4), 15), 6, 32)),
        And(ByteAt(bytes, ix + 5), 63) + 65536)

\* the four bytes to_string pushes for a code point: `>>` binds tighter
\* than `&`, so each mask is shifted and the code point is not
surrogate_utf8(code_point) ==
    << And(240, AsU8(And(code_point, Shr(1835008, 18)))),
       And(128, AsU8(And(code_point, Shr(258048, 12)))),
       And(128, AsU8(And(code_point, Shr(4032, 6)))),
       And(128, AsU8(And(code_point, 63))) >>

ToStringPanic(message) == Decoded("to_string", "Panic", <<>>, message)

RECURSIVE to_string_loop(_, _, _)
to_string_loop(bytes, ix, utf8) ==
    LET len == Len(bytes)
        b   == ByteAt(bytes, ix)
    IN  IF ix >= len
        THEN IF from_utf8(utf8, 0)
             THEN Decoded("to_string", "Done", utf8, "")
             ELSE ToStringPanic("unexpected error decoding modified UTF-8")
        ELSE IF 1 <= b /\ b <= 127
            THEN to_string_loop(bytes, ix + 1, Append(utf8, b))
        ELSE IF 192 <= b /\ b <= 223
            THEN IF len < ix + 2 THEN ToStringPanic("invalid sequence")
                 ELSE IF b = 192 /\ ByteAt(bytes, ix + 1) = 128
                     THEN to_string_loop(bytes, ix + 2, Append(utf8, 0))
                 ELSE to_string_loop(bytes, ix + 2, utf8 \o <<b, ByteAt(bytes, ix + 1)>>)
        ELSE IF 224 <= b /\ b <= 239
            THEN IF len < ix + 3 THEN ToStringPanic("invalid sequence")
                 ELSE IF b = 237 /\ ByteAt(bytes, ix + 1) >= 160 /\ ByteAt(bytes, ix + 1) <= 175
                     THEN IF \/ len < ix + 6
                             \/ ByteAt(bytes, ix + 3) # 237
                             \/ ByteAt(bytes, ix + 4) < 176
                             \/ ByteAt(bytes, ix + 4) > 191
                          THEN ToStringPanic("invalid surrogate pair")
                          ELSE to_string_loop(bytes, ix + 6,
                                   utf8 \o surrogate_utf8(surrogate_code_point(bytes, ix)))
                 ELSE to_string_loop(bytes, ix + 3,
                          utf8 \o <<b, ByteAt(bytes, ix + 1), ByteAt(bytes, ix + 2)>>)
        ELSE IF 128 <= b /\ b <= 191
            THEN ToStringPanic("invalid continuation byte")
        ELSE ToStringPanic("illegal byte")

\* ModifiedUtf8String::to_string
to_string(bytes) == to_string_loop(bytes, 0, <<>>)

\* the code unit to_utf16 computes from a two-byte sequence
two_byte_code_point(b0, b1) == And(Shl(And(b0, 31), 6, 16), And(b1, 63))

\* the code unit to_utf16 computes from a three-byte sequence
three_byte_code_point(b0, b1, b2) ==
    And(And(Shl(And(b0, 15), 12, 16), Shl(And(b1, 63), 6, 16)), And(b2, 63))

ToUtf16Panic(message) == Decoded("to_utf16", "Panic", <<>>, message)

RECURSIVE to_utf16_loop(_, _, _)
to_utf16_loop(bytes, ix, utf16) ==
    LET len == Len(bytes)
        b   == ByteAt(bytes, ix)
    IN  IF ix >= len THEN Decoded("to_utf16", "Done", utf16, "")
        ELSE IF 1 <= b /\ b <= 127
            THEN to_utf16_loop(bytes, ix + 1, Append(utf16, b))
        ELSE IF 192 <= b /\ b <= 223
            THEN IF len < ix + 2 THEN ToUtf16Panic("invalid sequence")
                 ELSE IF b = 192 /\ ByteAt(bytes, ix + 1) = 128
                     THEN to_utf16_loop(bytes, ix + 2, Append(utf16, 0))
                 ELSE to_utf16_loop(bytes, ix + 2,
                          Append(utf16, two_byte_code_point(b, ByteAt(bytes, ix + 1))))
        ELSE IF 224 <= b /\ b <= 239
            THEN IF len < ix + 3 THEN ToUtf16Panic("invalid sequence")
                 ELSE to_utf16_loop(bytes, ix + 3,
                          Append(utf16, three_byte_code_point(b, ByteAt(bytes, ix + 1),
                                                              ByteAt(bytes, ix + 2))))
        ELSE IF 128 <= b /\ b <= 191
            THEN ToUtf16Panic("invalid continuation byte")
        ELSE ToUtf16Panic("illegal byte")

\* ModifiedUtf8String::to_utf16
to_utf16(bytes) == to_utf16_loop(bytes, 0, <<>>)

\* the parser reads a Utf8 entry's bytes of the declared length
filter_bytes ==
    /\ Idle
    /\ output = <<>>
    /\ output' = <<take_modified_utf8(data, Len(data))>>
    /\ UNCHANGED <<loader, parser, data>>

\* a string of the run-time constant pool is converted to a Rust String
decode_string ==
    /\ Idle
    /\ output = <<>>
    /\ output' = <<to_string(data)>>
    /\ UNCHANGED <<loader, parser, data>>

\* a string of the run-time constant pool is converted to UTF-16
decode_utf16 ==
    /\ Idle
    /\ output = <<>>
    /\ output' = <<to_utf16(data)>>
    /\ UNCHANGED <<loader, parser, data>>

Utf8Init ==
    /\ Idle
    /\ data \in Concatenations(MaxChunks)
    /\ output = <<>>

Utf8Next == filter_bytes \/ decode_string \/ decode_utf16

Utf8Spec == Utf8Init /\ [][Utf8Next]_vars

(***************************************************************************)
(* C18: illegal modified UTF-8 bytes                                       *)
(***************************************************************************)
IllegalBytes == {0} \cup (240..255)

IllegalPositions(bytes) == {k \in DOMAIN bytes : bytes[k] \in IllegalBytes}

FirstIllegal(bytes) ==
    bytes[CHOOSE k \in IllegalPositions(bytes) :
              \A j \in IllegalPositions(bytes) : k <= j]

\* C18: a payload holding 0x00 or a byte of 0xF0..0xFF at any position fails
\* decoding: in the parser with IllegalModifiedUtf8 carrying the offending
\* byte, in to_string and to_utf16 with a failure and no output; a payload
\* of other bytes only passes the parser's byte filter.
C18_IllegalBytesFail ==
    output # <<>> =>
        LET r == output[1]
        IN  /\ r.fn = "take_modified_utf8" =>
                IF IllegalPositions(data) = {}
                THEN r.status = "Done" /\ r.value = data
                ELSE /\ r.status = "Error"
                     /\ r.message = "IllegalModifiedUtf8"
                     /\ r.value = <<FirstIllegal(data)>>
            /\ (r.fn \in {"to_string", "to_utf16"} /\ IllegalPositions(data) # {}) =>
                r.status = "Panic"

(***************************************************************************)
(* C19: surrogate pairs                                                    *)
(***************************************************************************)
RECURSIVE Or(_, _)
\* a | b
Or(a, b) ==
    IF a = 0 THEN b
    ELSE IF b = 0 THEN a
    ELSE (IF a % 2 = 1 \/ b % 2 = 1 THEN 1 ELSE 0) + (2 * Or(a \div 2, b \div 2))

\* ED A0..AF xx ED B0..BF yy
SurrogatePair(bytes) ==
    /\ Len(bytes) = 6
    /\ bytes[1] = 237 /\ bytes[2] \in 160..175 /\ IsContinuation(bytes[3])
    /\ bytes[4] = 237 /\ bytes[5] \in 176..191 /\ IsContinuation(bytes[6])

\* 0x10000 plus the 20 payload bits of the two halves
ScalarValue(bytes) ==
    65536 + (And(bytes[2], 15) * 65536) + (And(bytes[3], 63) * 1024)
          + (And(bytes[5], 15) * 64) + And(bytes[6], 63)

\* the four-byte UTF-8 encoding of a supplementary code point
Utf8Of(code_point) ==
    << 240 + (code_point \div 262144),
       128 + ((code_point \div 4096) % 64),
       128 + ((code_point \div 64) % 64),
       128 + (code_point % 64) >>

\* the code unit a three-byte sequence encodes
CodeUnit3(b0, b1, b2) ==
    Or(Or(And(b0, 15) * 4096, And(b1, 63) * 64), And(b2, 63))

\* C19: of a six-byte surrogate pair to_string yields the four-byte UTF-8
\* encoding of the one scalar value it encodes, and to_utf16 yields the two
\* code units of the high and the low surrogate.
C19_SurrogatePairs ==
    (output # <<>> /\ SurrogatePair(data)) =>
        LET r == output[1]
        IN  /\ r.fn = "to_string" =>
                r.status = "Done" /\ r.value = Utf8Of(ScalarValue(data))
            /\ r.fn = "to_utf16" =>
                /\ r.status = "Done"
                /\ r.value = << CodeUnit3(data[1], data[2], data[3]),
                                CodeUnit3(data[4], data[5], data[6]) >>

(***************************************************************************)
(* C20: UTF-16 decoding of short sequences                                 *)
(***************************************************************************)
\* the code unit a two-byte sequence encodes
CodeUnit2(b0, b1) == Or(And(b0, 31) * 64, And(b1, 63))

RECURSIVE ShortSequences(_, _)
\* the bytes from index ix on are one-, two- and three-byte sequences
ShortSequences(bytes, ix) ==
    LET len == Len(bytes)
        b   == ByteAt(bytes, ix)
    IN  IF ix >= len THEN TRUE
        ELSE IF b \in 1..127 THEN ShortSequences(bytes, ix + 1)
        ELSE IF b \in 192..223
            THEN /\ len >= ix + 2
                 /\ IsContinuation(ByteAt(bytes, ix + 1))
                 /\ ShortSequences(bytes, ix + 2)
        ELSE IF b \in 224..239
            THEN /\ len >= ix + 3
                 /\ IsContinuation(ByteAt(bytes, ix + 1))
                 /\ IsContinuation(ByteAt(bytes, ix + 2))
                 /\ ShortSequences(bytes, ix + 3)
        ELSE FALSE

RECURSIVE CodeUnits(_, _)
\* one code unit per sequence, in input order
CodeUnits(bytes, ix) ==
    LET b == ByteAt(bytes, ix)
    IN  IF ix >= Len(bytes) THEN <<>>
        ELSE IF b \in 1..127 THEN <<b>> \o CodeUnits(bytes, ix + 1)
        ELSE IF b \in 192..223
            THEN << IF b = 192 /\ ByteAt(bytes, ix + 1) = 128 THEN 0
                    ELSE CodeUnit2(b, ByteAt(bytes, ix + 1)) >>
                 \o CodeUnits(bytes, ix + 2)
        ELSE << CodeUnit3(b, ByteAt(bytes, ix + 1), ByteAt(bytes, ix + 2)) >>
             \o CodeUnits(bytes, ix + 3)

\* C20: to_utf16 maps a byte 0x01..0x7F to the code unit of that value,
\* C0 80 to 0, any other two-byte sequence to ((b0 & 0x1F) << 6) | (b1 & 0x3F)
\* and a three-byte sequence to
\* ((b0 & 0x0F) << 12) | ((b1 & 0x3F) << 6) | (b2 & 0x3F), one code unit per
\* sequence in input order.
C20_Utf16ShortSequences ==
    (output # <<>> /\ output[1].fn = "to_utf16" /\ ShortSequences(data, 0)) =>
        /\ output[1].status = "Done"
        /\ output[1].value = CodeUnits(data, 0)

(***************************************************************************)
(* C21: malformed modified UTF-8                                           *)
(***************************************************************************)
\* ED A0..AF at ix: the first half of a surrogate pair
HighSurrogateAt(bytes, ix) ==
    ByteAt(bytes, ix) = 237 /\ ByteAt(bytes, ix + 1) \in 160..175

RECURSIVE MalformedFrom(_, _)
\* from index ix on there is a lead byte followed by a byte that is no
\* continuation byte, a stray continuation byte, a truncated sequence, or a
\* high-surrogate half without a low-surrogate half right after it
MalformedFrom(bytes, ix) ==
    LET len == Len(bytes)
        b   == ByteAt(bytes, ix)
    IN  IF ix >= len THEN FALSE
        ELSE IF b \in 1..127 THEN MalformedFrom(bytes, ix + 1)
        ELSE IF b \in 192..223
            THEN \/ len < ix + 2
                 \/ ~IsContinuation(ByteAt(bytes, ix + 1))
                 \/ MalformedFrom(bytes, ix + 2)
        ELSE IF b \in 224..239
            THEN \/ len < ix + 3
                 \/ ~IsContinuation(ByteAt(bytes, ix + 1))
                 \/ ~IsContinuation(ByteAt(bytes, ix + 2))
                 \/ /\ HighSurrogateAt(bytes, ix)
                    /\ \/ len < ix + 6
                       \/ ByteAt(bytes, ix + 3) # 237
                       \/ ByteAt(bytes, ix + 4) \notin 176..191
                 \/ MalformedFrom(bytes, ix + 3)
        ELSE TRUE

\* C21: to_string and to_utf16 fail on malformed input (a lead byte followed
\* by a byte outside 0x80..0xBF, a stray continuation byte, a truncated
\* sequence, a high-surrogate half not followed by a low-surrogate half);
\* no such input yields a string or a code-unit sequence.
C21_MalformedFails ==
    ( /\ output # <<>>
      /\ output[1].fn \in {"to_string", "to_utf16"}
      /\ IllegalPositions(data) = {}
      /\ MalformedFrom(data, 0) ) =>
        output[1].status = "Panic"

(***************************************************************************)
(* The run-time constant pool (vm/constant_pool.rs).  A 32-bit word is a   *)
(* sequence of four bytes and a 64-bit word one of eight, most significant *)
(* byte first; a value keeps the bit pattern of what it holds.             *)
(***************************************************************************)
\* the pool items an input is put together from
MaxItems == 4

\* the four-byte words of Integer, Float, Long and Double entries
One == <<0, 0, 0, 1>>

MinusTwo == <<255, 255, 255, 254>>

Zeros(n) == [k \in 1..n |-> 0]

RECURSIVE BitsOf(_, _)
\* the low `width` bits of n, most significant first
BitsOf(n, width) ==
    IF width = 0 THEN <<>> ELSE Append(BitsOf(n \div 2, width - 1), n % 2)

RECURSIVE BytesToBits(_)
BytesToBits(bytes) ==
    IF bytes = <<>> THEN <<>>
    ELSE BitsOf(bytes[1], 8) \o BytesToBits(Tail(bytes))

RECURSIVE NumberOf(_)
NumberOf(bits) ==
    IF bits = <<>> THEN 0
    ELSE (2 * NumberOf(SubSeq(bits, 1, Len(bits) - 1))) + bits[Len(bits)]

RECURSIVE BitsToBytes(_)
BitsToBytes(bits) ==
    IF bits = <<>> THEN <<>>
    ELSE <<NumberOf(SubSeq(bits, 1, 8))>> \o BitsToBytes(SubSeq(bits, 9, Len(bits)))

RECURSIVE Increment(_)
\* bits + 1, of bits that are not all ones
Increment(bits) ==
    LET n == Len(bits)
    IN  IF bits[n] = 0 THEN [bits EXCEPT ![n] = 1]
        ELSE Append(Increment(SubSeq(bits, 1, n - 1)), 0)

\* x as f32 / x as f64 of an unsigned integer: the bit pattern of the
\* floating-point number nearest to its value (ties to even), with mantissa
\* and exponent fields of the given widths
as_float(bytes, mantissa_bits, exponent_bits, bias) ==
    LET bits == BytesToBits(bytes)
        n    == Len(bits)
        ones == {k \in 1..n : bits[k] = 1}
        lead == CHOOSE k \in ones : \A j \in ones : k <= j
        e    == n - lead
        following == SubSeq(bits, lead + 1, n)
        kept == IF e <= mantissa_bits
                THEN following \o Zeros(mantissa_bits - e)
                ELSE SubSeq(following, 1, mantissa_bits)
        rest == IF e <= mantissa_bits THEN <<>>
                ELSE SubSeq(following, mantissa_bits + 1, e)
        up   == /\ rest # <<>>
                /\ rest[1] = 1
                /\ \/ \E k \in 2..Len(rest) : rest[k] = 1
                   \/ kept[mantissa_bits] = 1
        carried  == up /\ \A k \in 1..mantissa_bits : kept[k] = 1
        mantissa == IF ~up THEN kept
                    ELSE IF carried THEN Zeros(mantissa_bits)
                    ELSE Increment(kept)
        exponent == bias + e + (IF carried THEN 1 ELSE 0)
    IN  IF ones = {} THEN bytes
        ELSE BitsToBytes(<<0>> \o BitsOf(exponent, exponent_bits) \o mantissa)

\* bytes as f32
as_f32(bytes) == as_float(bytes, 23, 8, 127)

\* bits as f64
as_f64(bytes) == as_float(bytes, 52, 11, 1023)

\* a & b of two words of the same width
AndWords(a, b) == [k \in DOMAIN a |-> And(a[k], b[k])]

\* (high_bytes as i64) << 32, the same for u64
ShiftedHigh(high_bytes) == high_bytes \o Zeros(4)

\* low_bytes as i64, the same for u64: a u32 is extended with zeros
Extended(low_bytes) == Zeros(4) \o low_bytes

\* the bits of a Long or Double entry
wide_bits(high_bytes, low_bytes) ==
    AndWords(ShiftedHigh(high_bytes), Extended(low_bytes))

Value(kind, bits) == [kind |-> kind, bits |-> bits]


FieldRef(class_index, name_and_type_index) ==
    [MethodRef(class_index, name_and_type_index) EXCEPT !.tag = "FieldRef"]

NameAndType(name_index, descriptor_index) ==
    [MethodRef(name_index, descriptor_index) EXCEPT !.tag = "NameAndType"]

Literal(tag, bytes) == [Info(tag, 0, "") EXCEPT !.u32_bytes = bytes]

WideLiteral(tag, high_bytes, low_bytes) ==
    [Info(tag, 0, "") EXCEPT !.high_bytes = high_bytes, !.low_bytes = low_bytes]

\* the slots one entry of a class file fills: itself, and the placeholder
\* after a Long or Double
PoolItems ==
    { <<Info("Utf8", 0, "Other")>>,
      <<Info("Class", 1, "")>>, <<Info("Class", 2, "")>>,
      <<NameAndType(1, 1)>>,
      <<MethodRef(2, 3)>>, <<FieldRef(2, 3)>>,
      <<Info("String", 1, "")>>,
      <<Info("MethodType", 1, "")>> }
      \cup {<<Literal("Integer", MinusTwo)>>, <<Literal("Float", One)>>}
      \cup {<<WideLiteral("Long", One, MinusTwo), Unusable>>}
      \cup {<<WideLiteral("Double", MinusTwo, One), Unusable>>}

RECURSIVE Pools(_)
Pools(n) ==
    IF n = 0 THEN {<<>>}
    ELSE LET shorter == Pools(n - 1)
         IN  shorter \cup {q \o item : q \in shorter, item \in PoolItems}

\* the bytes of a Utf8 entry, which the parser model names by their text
Utf8Payload(bytes) ==
    CASE bytes = "Other" -> <<79, 116, 104, 101, 114>>
      [] bytes = "ConstantValue" ->
            <<67, 111, 110, 115, 116, 97, 110, 116, 86, 97, 108, 117, 101>>
      [] bytes = ObjectName ->
            <<106, 97, 118, 97, 47, 108, 97, 110, 103, 47, 79, 98, 106, 101, 99, 116>>

panic(message) == [status |-> "Panic", message |-> message]

Forced(value) == [status |-> "Ok", value |-> value]

OutOfBounds == Info("OutOfBounds", 0, "")

\* constant_pool[n as usize]: one-based; an index that addresses no slot panics
\* where the entry is used
IndexPool(pool, n) ==
    IF n \in 1..Len(pool) THEN pool[n] ELSE OutOfBounds

force_string(info) ==
    IF info = OutOfBounds THEN panic("index out of bounds")
    ELSE IF info.tag = "Utf8" THEN Forced(info.bytes)
    ELSE panic("expected ConstantPoolInfo::Utf8")

\* force_string(info).to_string()
forced_to_string(info) ==
    LET modified_utf8 == force_string(info)
        decoded == to_string(Utf8Payload(modified_utf8.value))
    IN  IF modified_utf8.status = "Panic" THEN modified_utf8
        ELSE IF decoded.status = "Panic" THEN panic(decoded.message)
        ELSE Forced(decoded.value)

force_class_ref(pool, info) ==
    IF info = OutOfBounds THEN panic("index out of bounds")
    ELSE IF info.tag = "Class"
        THEN LET name == forced_to_string(IndexPool(pool, info.index))
             IN  IF name.status = "Panic" THEN name
                 ELSE Forced([sig |-> name.value])
    ELSE panic("expected ConstantPoolInfo::Class")

force_name_and_type(pool, info) ==
    IF info = OutOfBounds THEN panic("index out of bounds")
    ELSE IF info.tag = "NameAndType"
        THEN LET name_info == IndexPool(pool, info.index)
                 descriptor_info == IndexPool(pool, info.name_and_type_index)
                 name_string == forced_to_string(name_info)
                 descriptor_string == forced_to_string(descriptor_info)
             IN  IF OutOfBounds \in {name_info, descriptor_info}
                     THEN panic("index out of bounds")
                 ELSE IF name_string.status = "Panic" THEN name_string
                 ELSE IF descriptor_string.status = "Panic" THEN descriptor_string
                 ELSE Forced(<<name_string.value, descriptor_string.value>>)
    ELSE panic("expected ConstantPoolInfo::NameAndType")

RuntimeConstantPoolEntry(kind, value) == [kind |-> kind, value |-> value]

\* the symbolic reference of a FieldRef or MethodRef entry
member_ref(kind, pool, info) ==
    LET class_info == IndexPool(pool, info.index)
        name_and_type_info == IndexPool(pool, info.name_and_type_index)
        class_symref == force_class_ref(pool, class_info)
        name_and_type == force_name_and_type(pool, name_and_type_info)
    IN  IF class_symref.status = "Panic" THEN class_symref
        ELSE IF name_and_type.status = "Panic" THEN name_and_type
        ELSE Forced(<<RuntimeConstantPoolEntry(kind,
                    [class |-> class_symref.value,
                     sig |-> [name |-> name_and_type.value[1],
                              descriptor |-> name_and_type.value[2]]])>>)

\* the match of RuntimeConstantPool::new: Forced(<<entry>>) for Some(entry),
\* Forced(<<>>) for None
runtime_entry(pool, info) ==
    CASE info.tag = "Class" ->
            LET class_symref == force_class_ref(pool, info)
            IN  IF class_symref.status = "Panic" THEN class_symref
                ELSE Forced(<<RuntimeConstantPoolEntry("ClassRef", class_symref.value)>>)
      [] info.tag = "FieldRef" -> member_ref("FieldRef", pool, info)
      [] info.tag = "MethodRef" -> member_ref("MethodRef", pool, info)
      [] info.tag = "String" ->
            Forced(<<RuntimeConstantPoolEntry("UnresolvedString", info.index)>>)
      [] info.tag = "Integer" ->
            Forced(<<RuntimeConstantPoolEntry("ResolvedLiteral",
                    Value("Int", info.u32_bytes))>>)
      [] info.tag = "Float" ->
            Forced(<<RuntimeConstantPoolEntry("ResolvedLiteral",
                    Value("Float", as_f32(info.u32_bytes)))>>)
      [] info.tag = "Long" ->
            Forced(<<RuntimeConstantPoolEntry("ResolvedLiteral",
                    Value("Long", wide_bits(info.high_bytes, info.low_bytes)))>>)
      [] info.tag = "Double" ->
            Forced(<<RuntimeConstantPoolEntry("ResolvedLiteral",
                    Value("Double", as_f64(wide_bits(info.high_bytes, info.low_bytes))))>>)
      [] info.tag = "Utf8" ->
            Forced(<<RuntimeConstantPoolEntry("StringValue", info.bytes)>>)
      [] OTHER -> Forced(<<>>)

RECURSIVE new_loopPushesSome(_, _, _)
\* mutation: a None entry takes no slot
new_loopPushesSome(pool, k, slots) ==
    IF k > Len(pool) THEN [status |-> "Ok", entries |-> slots]
    ELSE LET entry == runtime_entry(pool, pool[k])
         IN  IF entry.status = "Panic"
             THEN [status |-> "Panic", entries |-> <<>>, message |-> entry.message]
             ELSE new_loopPushesSome(pool, k + 1,
                      IF entry.value = <<>> THEN slots ELSE Append(slots, entry.value))

RECURSIVE new_loop(_, _, _)
\* the loop of RuntimeConstantPool::new from the k-th slot on
new_loop(pool, k, slots) ==
    IF k > Len(pool) THEN [status |-> "Ok", entries |-> slots]
    ELSE LET entry == runtime_entry(pool, pool[k])
         IN  IF entry.status = "Panic"
             THEN [status |-> "Panic", entries |-> <<>>, message |-> entry.message]
             ELSE new_loop(pool, k + 1, Append(slots, entry.value))

\* RuntimeConstantPool::new
RuntimeConstantPool_new(pool) == new_loop(pool, 1, <<>>)

\* the class loader builds the run-time constant pool of a parsed class file
build_pool ==
    /\ output = <<>>
    /\ output' = <<RuntimeConstantPool_new(data)>>
    /\ UNCHANGED <<loader, parser, data>>

\* the run-time constant pool of a class file that parse_class_file returned
build_parsed_pool ==
    /\ phase = "stopped"
    /\ result = <<Done>>
    /\ output = <<>>
    /\ output' = <<RuntimeConstantPool_new(class_file.constant_pool)>>
    /\ UNCHANGED <<loader, parser, data>>

PoolInit ==
    /\ Idle
    /\ data \in Pools(MaxItems)
    /\ output = <<>>

PoolNext == build_pool

PoolSpec == PoolInit /\ [][PoolNext]_vars

(***************************************************************************)
(* C22: literal decoding                                                   *)
(***************************************************************************)
Built == output # <<>> /\ output[1].status = "Ok"

ResolvedLiteral(kind, bits) ==
    <<RuntimeConstantPoolEntry("ResolvedLiteral", Value(kind, bits))>>

\* C22: RuntimeConstantPool::new turns a Long entry into the literal whose 64
\* bits are (high_bytes << 32) | low_bytes, a Double entry into the double of
\* that bit pattern, and an Integer entry into the int of its four bytes.
C22_LiteralBits ==
    Built =>
        \A k \in DOMAIN data :
            LET info == data[k]
                slot == output[1].entries[k]
            IN  /\ info.tag = "Long" =>
                    slot = ResolvedLiteral("Long", info.high_bytes \o info.low_bytes)
                /\ info.tag = "Double" =>
                    slot = ResolvedLiteral("Double", info.high_bytes \o info.low_bytes)
                /\ info.tag = "Integer" =>
                    slot = ResolvedLiteral("Int", info.u32_bytes)

\* parse_class_file and then RuntimeConstantPool::new on what it returned
ParsedPoolNext == ParserNext \/ build_parsed_pool

ParsedPoolSpec == ParserInit /\ [][ParsedPoolNext]_vars

(***************************************************************************)
(* C23: the builder on parsed pools                                        *)
(***************************************************************************)
\* C23: RuntimeConstantPool::new completes on the constant pool of every class
\* file the parser returns: it reaches no "expected ConstantPoolInfo::..."
\* panic and no index out of range.
C23_BuilderTotal ==
    (Parsed /\ output # <<>>) => output[1].status = "Ok"

(***************************************************************************)
(* C24: slot correspondence                                                *)
(***************************************************************************)
\* the kind of run-time entry a parsed entry of the given tag becomes
RuntimeKind(tag) ==
    CASE tag = "Class" -> "ClassRef"
      [] tag = "FieldRef" -> "FieldRef"
      [] tag = "MethodRef" -> "MethodRef"
      [] tag = "String" -> "UnresolvedString"
      [] tag \in {"Integer", "Float", "Long", "Double"} -> "ResolvedLiteral"
      [] tag = "Utf8" -> "StringValue"
      [] OTHER -> "None"

\* C24: RuntimeConstantPool::new yields one run-time slot per slot of the
\* parsed pool at the same one-based index: Class -> ClassRef, FieldRef ->
\* FieldRef, MethodRef -> MethodRef, String -> UnresolvedString(string_index),
\* Integer/Float/Long/Double -> ResolvedLiteral, Utf8 -> StringValue, and
\* Unusable, NameAndType and every other kind -> an empty slot; no class is
\* loaded.
C24_SlotCorrespondence ==
    Built =>
        /\ Len(output[1].entries) = Len(data)
        /\ \A k \in DOMAIN data :
               LET info == data[k]
                   slot == output[1].entries[k]
               IN  IF RuntimeKind(info.tag) = "None" THEN slot = <<>>
                   ELSE /\ Len(slot) = 1
                        /\ slot[1].kind = RuntimeKind(info.tag)
                        /\ info.tag = "String" => slot[1].value = info.index
        /\ classes = <<>>
        /\ consulted = {}

\* C24: a pool with a MethodRef behind an empty NameAndType slot was built
C24_Witness ==
    /\ Built
    /\ \E k \in DOMAIN data :
           /\ data[k].tag = "MethodRef"
           /\ output[1].entries[k][1].kind = "MethodRef"
           /\ \E j \in 1..(k - 1) :
                  data[j].tag = "NameAndType" /\ output[1].entries[j] = <<>>

(***************************************************************************)
(* Deferred string resolution (RuntimeConstantPool::resolve_literal).  The *)
(* class loader's answers and what the constructor returns are inputs; the *)
(* calls made on the class loader and the interpreter are logged in order. *)
(***************************************************************************)
Errors ==
    {"ClassNotFound", "ClassFormat", "UnsupportedVersion", "NoClassDefFound",
     "IncompatibleClassChange", "ClassCircularity"}

\* what class_loader.resolve_class may answer for a handle
ResolveOutcomes(h) == {Ok(h)} \cup {Err(e) : e \in Errors}

array_sig == Array(Primitive("Char"))

string_sig == Scalar("java/lang/String")

ResolveClass(h) == [call |-> "resolve_class", arg |-> h]

Invoke(array) == [call |-> "<init>", arg |-> array]

Resolved(status, value, calls) ==
    [status |-> status, value |-> value, calls |-> calls]

\* self.entries[n as usize], with a slot of kind OutOfBounds where the index
\* panics
EntryAt(slots, n) ==
    IF n \in 1..Len(slots) THEN slots[n]
    ELSE <<RuntimeConstantPoolEntry("OutOfBounds", 0)>>

IsNone(slot) == Len(slot) = 0

IsOutOfBounds(slot) == Len(slot) = 1 /\ slot[1].kind = "OutOfBounds"

\* mutation: the String class is resolved before the array class
unresolved_stringStringFirst(slots, string_index, array_class, string_class, returned) ==
    LET backing == EntryAt(slots, string_index)
        chars == to_utf16(Utf8Payload(backing[1].value))
        array == [class |-> array_class.class, elements |-> chars.value]
        first == <<ResolveClass(string_sig)>>
        second == Append(first, ResolveClass(array_sig))
    IN  IF ~string_class.ok THEN Resolved("Err", string_class.err, first)
        ELSE IF ~array_class.ok THEN Resolved("Err", array_class.err, second)
        ELSE IF IsNone(backing) \/ IsOutOfBounds(backing)
            THEN Resolved("Panic", "expected RuntimeConstantPoolEntry::StringValue", second)
        ELSE IF backing[1].kind # "StringValue"
            THEN Resolved("Panic", "expected RuntimeConstantPoolEntry::StringValue", second)
        ELSE IF chars.status = "Panic" THEN Resolved("Panic", chars.message, second)
        ELSE Resolved("Ok", [kind |-> "ScalarReference", class |-> string_class.class],
                      Append(second, Invoke(array)))

\* the UnresolvedString arm of resolve_literal
unresolved_string(slots, string_index, array_class, string_class, returned) ==
    LET backing == EntryAt(slots, string_index)
        chars == to_utf16(Utf8Payload(backing[1].value))
        array == [class |-> array_class.class, elements |-> chars.value]
        first == <<ResolveClass(array_sig)>>
        second == Append(first, ResolveClass(string_sig))
        third == Append(second, Invoke(array))
    IN  IF ~array_class.ok THEN Resolved("Err", array_class.err, first)
        ELSE IF IsOutOfBounds(backing)
            THEN Resolved("Panic", "index out of bounds", first)
        ELSE IF IsNone(backing)
            THEN Resolved("Panic", "expected RuntimeConstantPoolEntry::StringValue", first)
        ELSE IF backing[1].kind # "StringValue"
            THEN Resolved("Panic", "expected RuntimeConstantPoolEntry::StringValue", first)
        ELSE IF chars.status = "Panic" THEN Resolved("Panic", chars.message, first)
        ELSE IF ~string_class.ok THEN Resolved("Err", string_class.err, second)
        ELSE IF returned THEN Resolved("Panic", "<init> returned a value!", third)
        ELSE Resolved("Ok", [kind |-> "ScalarReference", class |-> string_class.class],
                      third)

\* RuntimeConstantPool::resolve_literal
resolve_literal(slots, index, array_class, string_class, returned) ==
    LET entry == EntryAt(slots, index)
    IN  IF IsOutOfBounds(entry)
            THEN Resolved("Panic", "index out of bounds", <<>>)
        ELSE IF IsNone(entry)
            THEN Resolved("Panic", "expected literal constant pool entry", <<>>)
        ELSE IF entry[1].kind = "ResolvedLiteral"
            THEN Resolved("Ok", entry[1].value, <<>>)
        ELSE IF entry[1].kind = "UnresolvedString"
            THEN unresolved_string(slots, entry[1].value, array_class, string_class,
                                   returned)
        ELSE Resolved("Panic", "expected literal constant pool entry", <<>>)

\* the run-time pools of the parsed pools of up to two items
\* a literal of a run-time constant pool is resolved
resolve ==
    /\ output = <<>>
    /\ \E array_class \in ResolveOutcomes(array_sig),
          string_class \in ResolveOutcomes(string_sig),
          returned \in BOOLEAN :
           output' = << resolve_literal(data.entries, data.index,
                                        array_class, string_class, returned),
                        [array_class |-> array_class,
                         string_class |-> string_class,
                         returned |-> returned] >>
    /\ UNCHANGED <<loader, parser, data>>

\* the calls of resolve_literal on a pool that RuntimeConstantPool::new built:
\* every index from 0 to one past the last slot
LiteralCalls(built) ==
    IF built.status = "Ok"
    THEN {[entries |-> built.entries, index |-> n] : n \in 0..(Len(built.entries) + 1)}
    ELSE {}

LiteralInit ==
    /\ Idle
    /\ data \in UNION {LiteralCalls(RuntimeConstantPool_new(q)) : q \in Pools(2)}
    /\ output = <<>>

LiteralNext == resolve

LiteralSpec == LiteralInit /\ [][LiteralNext]_vars

(***************************************************************************)
(* C25: the order of deferred string resolution                            *)
(***************************************************************************)
\* the slot resolve_literal was called on
LiteralSlot == EntryAt(data.entries, data.index)

IsKind(slot, kind) == Len(slot) = 1 /\ slot[1].kind = kind

\* C25: on an UnresolvedString slot resolve_literal first resolves the
\* array-of-char class, then decodes the backing Utf8 slot into the char
\* array, then resolves java/lang/String and invokes its char-array
\* constructor; when a class resolution fails that error is returned, no
\* string object is made, and the String class is not requested after the
\* array class failed.  On a ResolvedLiteral slot the stored value is
\* returned and the class loader is not called.
C25_ResolutionOrder ==
    output # <<>> =>
        LET r == output[1]
            answers == output[2]
            backing == EntryAt(data.entries, LiteralSlot[1].value)
        IN  /\ IsKind(LiteralSlot, "ResolvedLiteral") =>
                r = Resolved("Ok", LiteralSlot[1].value, <<>>)
            /\ IsKind(LiteralSlot, "UnresolvedString") =>
                /\ r.calls # <<>> /\ r.calls[1] = ResolveClass(array_sig)
                /\ ~answers.array_class.ok =>
                       r = Resolved("Err", answers.array_class.err,
                                    <<ResolveClass(array_sig)>>)
                /\ (answers.array_class.ok /\ IsKind(backing, "StringValue")) =>
                       /\ Len(r.calls) >= 2
                       /\ r.calls[2] = ResolveClass(string_sig)
                       /\ ~answers.string_class.ok =>
                              /\ r.status = "Err"
                              /\ r.value = answers.string_class.err
                              /\ Len(r.calls) = 2
                       /\ answers.string_class.ok =>
                              /\ Len(r.calls) = 3
                              /\ r.calls[3] =
                                   Invoke([class |-> answers.array_class.class,
                                           elements |->
                                             to_utf16(Utf8Payload(backing[1].value)).value])
                /\ r.status = "Ok" =>
                       answers.array_class.ok /\ answers.string_class.ok

\* C25: a string was made after both classes resolved, and a failure of the
\* array class was returned
C25_Witness ==
    /\ output # <<>>
    /\ IsKind(LiteralSlot, "UnresolvedString")
    /\ output[1].status = "Ok"
    /\ Len(output[1].calls) = 3

(***************************************************************************)
(* C26: the index a pool-entry failure carries                             *)
(***************************************************************************)
\* a step in which decoding a pool entry fails: the ConstantPoolEntry error
\* names the one-based index of the failing entry, the slots decoded before
\* it (placeholders included) plus one
C26_Step ==
    ( /\ phase = "constant_pool"
      /\ phase' = "stopped"
      /\ result'[1].status = "Error" ) =>
        result'[1].error[3] = E("ConstantPoolEntry", Len(entries) + 1, "", "")

\* C26: when decoding a constant pool entry fails, the ConstantPoolEntry error
\* carries the one-based constant pool index of the failing entry, wide
\* entries before it counted as two slots.
C26_PoolEntryIndex == [][C26_Step]_vars

(***************************************************************************)
(* C27: pending set and cache                                              *)
(***************************************************************************)
\* at an entry to load_class_impl and after a return from it no handle is
\* both pending and cached
C27_Disjoint ==
    (At("entry") \/ ret # <<>>) => pending \cap DOMAIN classes = {}

\* while a call is in progress the pending handles are those of the
\* activations past their entry, one activation each
C27_OwnInterval ==
    Running =>
        /\ pending = MarkedHandles
        /\ \A m, n \in 1..Len(stack) :
               (stack[m].pc # "entry" /\ stack[n].pc # "entry"
                  /\ stack[m].handle = stack[n].handle) => m = n

\* a handle becomes a cache key in a step of the activation that has it
\* pending, and leaves the pending set in the step in which that activation
\* returns
C27_Step ==
    /\ DOMAIN classes' # DOMAIN classes =>
           /\ Running
           /\ Top.pc # "entry"
           /\ Top.handle \in pending
           /\ DOMAIN classes' = DOMAIN classes \cup {Top.handle}
           /\ pending' = pending
    /\ (Running /\ pending \ pending' # {}) =>
           /\ pending \ pending' = {Top.handle}
           /\ Top.pc # "entry"
           /\ stack' = Pop

\* C27: at every entry to load_class_impl and after every return from it no
\* handle is both in the pending set and a key of the class cache; a handle
\* becomes a cache key only during its own pending interval and leaves the
\* pending set in the call that inserted it.
C27_PendingAndCache ==
    [](C27_Disjoint /\ C27_OwnInterval) /\ [][C27_Step]_vars

\* C27: a nested call is entered while an outer handle is pending and another
\* class is already cached
C27_Witness ==
    /\ At("entry")
    /\ Len(stack) >= 2
    /\ pending # {}
    /\ DOMAIN classes # {}

(***************************************************************************)
(* C28: the cache is closed under the dependencies of array classes        *)
(***************************************************************************)
\* C28: if an array handle is a key of the cache, java/lang/Object is a key
\* too and its instance is the array class's superclass, and the element
\* class of an array of references is a key as well.
C28_CacheClosure ==
    \A h \in DOMAIN classes :
        IsArray(h) =>
            /\ object_handle \in DOMAIN classes
            /\ classes[h].superclass = <<classes[object_handle].id>>
            /\ IsReferenceType(ComponentType(h)) =>
                   ComponentType(h).handle[1] \in DOMAIN classes

\* C28: an array of references is cached
C28_Witness ==
    \E h \in DOMAIN classes : IsArray(h) /\ IsReferenceType(ComponentType(h))

(***************************************************************************)
(* C29: the arithmetic on constant_pool_count                              *)
(***************************************************************************)
\* C29: for every constant_pool_count, 0 included, the loop bound
\* constant_pool_count - 1 is computed without unsigned underflow: no parse
\* ends in a panic (a count of 0 yields a parse error), and a returned class
\* file has the constant_pool_count - 1 slots of the loop bound or more.
C29_CountArithmetic ==
    phase = "stopped" =>
        /\ result[1].status \in {"Done", "Error", "Incomplete"}
        /\ Parsed => Len(class_file.constant_pool) >= constant_pool_count - 1

(***************************************************************************)
(* Class::new and Method::new (vm/mod.rs): the run-time class of a parsed  *)
(* class file.  data is the class file's fields and methods; output is the *)
(* Class that was built, or the panic that ended the construction.         *)
(***************************************************************************)
\* field_access_flags::ACC_STATIC
ACC_STATIC == 8

FieldInfo(access_flags, name_index, descriptor_index) ==
    [access_flags |-> access_flags, name_index |-> name_index,
     descriptor_index |-> descriptor_index]

MethodInfo(name_index, descriptor_index, attrs) ==
    [name_index |-> name_index, descriptor_index |-> descriptor_index,
     attributes |-> attrs]

\* AttributeInfo::Code { code, exception_table, .. }
CodeAttribute(code, exception_table) ==
    [kind |-> "Code", code |-> code, exception_table |-> exception_table]

\* an AttributeInfo of a variant other than Code
ExceptionsAttribute == [kind |-> "Exceptions", code |-> <<>>, exception_table |-> <<>>]

\* the constant pool the class is built with: two names and a class reference
ClassPool ==
    RuntimeConstantPool_new(<<Info("Utf8", 0, "Other"),
                              Info("Utf8", 0, "ConstantValue"),
                              Info("Class", 1, "")>>).entries

\* ACC_PUBLIC, and ACC_PUBLIC | ACC_STATIC
FieldFlags == {1, 9}

FieldInfos ==
    {FieldInfo(access_flags, name_index, descriptor_index) :
        access_flags \in FieldFlags, name_index \in 1..3, descriptor_index \in 1..2}

\* a body that returns, with no handler, and one that starts with a nop and
\* has one exception table entry
ReturnCode == CodeAttribute(<<177>>, <<>>)

NopCode ==
    CodeAttribute(<<0, 177>>,
                  <<[start_pc |-> 0, end_pc |-> 1, handler_pc |-> 1, catch_type |-> 0]>>)

AttributeLists ==
    { <<>>, <<ExceptionsAttribute>>, <<ReturnCode>>,
      <<ExceptionsAttribute, NopCode, ReturnCode>>, <<ReturnCode, NopCode>> }

MethodInfos ==
    {MethodInfo(name_index, 2, attrs) : name_index \in 1..2, attrs \in AttributeLists}

ClassFiles ==
    {[fields |-> fs, methods |-> ms] :
        fs \in SeqsUpTo(FieldInfos, 2), ms \in SeqsUpTo(MethodInfos, 2)}

\* RuntimeConstantPool::lookup_raw_string
lookup_raw_string(slots, index) ==
    LET slot == EntryAt(slots, index)
    IN  IF IsOutOfBounds(slot) THEN panic("index out of bounds")
        ELSE IF Len(slot) = 1 /\ slot[1].kind = "StringValue"
        THEN LET decoded == to_string(Utf8Payload(slot[1].value))
             IN  IF decoded.status = "Panic" THEN panic(decoded.message)
                 ELSE Forced(decoded.value)
        ELSE panic("expected RuntimeConstantPoolInfo::StringValue")

\* handle::Type::new: the type a descriptor denotes
Type_new(descriptor) == [descriptor |-> descriptor]

\* handle::Type::default_value: the zero value of the type
default_value(ty) == [zero_of |-> ty]

\* handle::Method::new
handle_Method_new(name, descriptor) == [name |-> name, descriptor |-> descriptor]

\* HashMap::insert on a map kept as its set of <<key, value>> pairs
MapInsert(map, key, value) == {p \in map : p[1] # key} \cup {<<key, value>>}

RECURSIVE Method_newLastCode(_, _)
\* mutation: a later Code attribute replaces an earlier one
Method_newLastCode(symref, attrs) ==
    IF attrs = <<>> THEN panic("no Code attribute in MethodInfo")
    ELSE LET last == attrs[Len(attrs)]
         IN  IF last.kind = "Code"
             THEN Forced([symref |-> symref, code |-> last.code,
                          exception_table |-> last.exception_table])
             ELSE Method_newLastCode(symref, SubSeq(attrs, 1, Len(attrs) - 1))

RECURSIVE Method_new(_, _)
\* Method::new over the attributes of the method_info still to be looked at
Method_new(symref, attrs) ==
    IF attrs = <<>> THEN panic("no Code attribute in MethodInfo")
    ELSE LET attr == Head(attrs)
         IN  IF attr.kind = "Code"
             THEN Forced([symref |-> symref, code |-> attr.code,
                          exception_table |-> attr.exception_table])
             ELSE Method_new(symref, Tail(attrs))

\* the first loop of Class::new
RECURSIVE fields_loop(_, _, _, _)
fields_loop(slots, field_infos, class_fields, instance_fields) ==
    IF field_infos = <<>>
    THEN [status |-> "Ok", class_fields |-> class_fields,
          instance_fields |-> instance_fields]
    ELSE LET field_info == Head(field_infos)
             name == lookup_raw_string(slots, field_info.name_index)
             descriptor == lookup_raw_string(slots, field_info.descriptor_index)
             handle == [name |-> name.value, ty |-> Type_new(descriptor.value)]
         IN  IF name.status = "Panic" THEN name
             ELSE IF descriptor.status = "Panic" THEN descriptor
             ELSE IF And(field_info.access_flags, ACC_STATIC) # 0
             THEN fields_loop(slots, Tail(field_infos),
                      MapInsert(class_fields, handle, default_value(handle.ty)),
                      instance_fields)
             ELSE fields_loop(slots, Tail(field_infos), class_fields,
                      instance_fields \cup {handle})

\* the second loop of Class::new
RECURSIVE methods_loop(_, _, _, _)
methods_loop(symref, slots, method_infos, methods) ==
    IF method_infos = <<>> THEN [status |-> "Ok", methods |-> methods]
    ELSE LET method_info == Head(method_infos)
             name == lookup_raw_string(slots, method_info.name_index)
             descriptor == lookup_raw_string(slots, method_info.descriptor_index)
             handle == handle_Method_new(name.value, descriptor.value)
             method_symref == [class |-> symref, handle |-> handle]
             built_method == Method_new(method_symref, method_info.attributes)
         IN  IF name.status = "Panic" THEN name
             ELSE IF descriptor.status = "Panic" THEN descriptor
             ELSE IF built_method.status = "Panic" THEN built_method
             ELSE methods_loop(symref, slots, Tail(method_infos),
                      MapInsert(methods, handle, built_method.value))

\* Class::new: the Class, or the panic that ended the construction
Class_new(symref, superclass, slots, file) ==
    LET fields == fields_loop(slots, file.fields, {}, {})
        methods == methods_loop(symref, slots, file.methods, {})
    IN  IF fields.status = "Panic" THEN fields
        ELSE IF methods.status = "Panic" THEN methods
        ELSE Forced([symref |-> symref, superclass |-> superclass,
                     constant_pool |-> slots,
                     class_fields |-> fields.class_fields,
                     instance_fields |-> fields.instance_fields,
                     methods |-> methods.methods])

\* the symbolic reference of the class that is built
ClassSymref == [handle |-> "Other"]

\* the class loader builds the Class of a parsed class file
new_class ==
    /\ output = <<>>
    /\ output' = <<Class_new(ClassSymref, <<>>, ClassPool, data)>>
    /\ UNCHANGED <<loader, parser, data>>

ClassInit ==
    /\ Idle
    /\ data \in ClassFiles
    /\ output = <<>>

ClassNext == new_class

ClassSpec == ClassInit /\ [][ClassNext]_vars

(***************************************************************************)
(* C30: class construction                                                 *)
(***************************************************************************)
IsStatic(field_info) == (field_info.access_flags \div ACC_STATIC) % 2 = 1

\* the text of the StringValue slot an index names
RawString(index) == lookup_raw_string(ClassPool, index).value

FieldHandle(field_info) ==
    [name |-> RawString(field_info.name_index),
     ty |-> Type_new(RawString(field_info.descriptor_index))]

MethodHandle(method_info) ==
    handle_Method_new(RawString(method_info.name_index),
                      RawString(method_info.descriptor_index))

CodePositions(method_info) ==
    {k \in 1..Len(method_info.attributes) : method_info.attributes[k].kind = "Code"}

\* the first Code attribute of a method that has one
FirstCode(method_info) ==
    LET first == CHOOSE k \in CodePositions(method_info) :
                     \A other \in CodePositions(method_info) : k <= other
    IN  method_info.attributes[first]

StaticFields == {k \in 1..Len(data.fields) : IsStatic(data.fields[k])}

InstanceFields == (1..Len(data.fields)) \ StaticFields

Keys(map) == {p[1] : p \in map}

\* C30: when Class::new yields a Class, class_fields holds exactly the handles
\* of the fields with ACC_STATIC set, each mapped to the default value of its
\* type, and instance_fields holds exactly the handles of the other fields, so
\* no field is put into the container of the other kind (the two containers
\* share a handle only when a static and a non-static field have the same name
\* and type); every method has a Method under its handle, built from the code
\* and the exception table of the first Code attribute of a method with that
\* handle; and when some method has no Code attribute the construction panics
\* and yields no Class.
C30_ClassConstruction ==
    output # <<>> =>
        LET built == output[1]
        IN  /\ (\E k \in 1..Len(data.methods) : CodePositions(data.methods[k]) = {})
                  => built.status = "Panic"
            /\ built.status = "Ok" =>
                  /\ Keys(built.value.class_fields)
                        = {FieldHandle(data.fields[k]) : k \in StaticFields}
                  /\ \A p \in built.value.class_fields : p[2] = default_value(p[1].ty)
                  /\ built.value.instance_fields
                        = {FieldHandle(data.fields[k]) : k \in InstanceFields}
                  /\ (\A j \in StaticFields, k \in InstanceFields :
                          FieldHandle(data.fields[j]) # FieldHandle(data.fields[k]))
                        => Keys(built.value.class_fields)
                              \cap built.value.instance_fields = {}
                  /\ Keys(built.value.methods)
                        = {MethodHandle(data.methods[k]) : k \in 1..Len(data.methods)}
                  /\ \A p \in built.value.methods :
                        \E k \in 1..Len(data.methods) :
                           /\ p[1] = MethodHandle(data.methods[k])
                           /\ p[2].code = FirstCode(data.methods[k]).code
                           /\ p[2].exception_table
                                 = FirstCode(data.methods[k]).exception_table
                  /\ \A k \in 1..Len(data.methods) :
                        (\A j \in 1..Len(data.methods) :
                            j # k => MethodHandle(data.methods[j])
                                        # MethodHandle(data.methods[k]))
                        => \E p \in built.value.methods :
                              /\ p[1] = MethodHandle(data.methods[k])
                              /\ p[2].code = FirstCode(data.methods[k]).code
                              /\ p[2].exception_table
                                    = FirstCode(data.methods[k]).exception_table

\* a Class was built from a static and a non-static field and from a method
\* whose second and third attributes are both Code attributes
C30_Witness ==
    /\ output # <<>>
    /\ output[1].status = "Ok"
    /\ StaticFields # {}
    /\ InstanceFields # {}
    /\ \E k \in 1..Len(data.methods) :
          data.methods[k].attributes = <<ExceptionsAttribute, NopCode, ReturnCode>>

====
